---- MODULE Spec2Model ----
(***************************************************************************)
(* PyCardPay: order encoding, SHA-512 signing and verification, gateway    *)
(* reply decoding and callback verification, modelled from                 *)
(* PyCardPay/utils.py, PyCardPay/api.py, PyCardPay/cardpay.py and          *)
(* PyCardPay/exceptions.py.                                                *)
(*                                                                         *)
(* Text is modelled at two levels: attribute names and values are TLA+     *)
(* strings; a serialized document is the sequence of its UTF-8 octets, so  *)
(* that base64 and the digest input are computed on octets as the code     *)
(* computes them.  SHA-512 is modelled as an ideal (collision-free) hash:  *)
(* the digest of a message is a record that names the message.             *)
(***************************************************************************)
EXTENDS Integers, Sequences, FiniteSets, TLC

VARIABLES
    c_order,        \* caller's order dict
    c_items,        \* caller's items list (or None)
    c_billing,      \* caller's billing dict (or None); order_to_xml updates it in place
    c_shipping,     \* caller's shipping dict (or None); order_to_xml updates it in place
    c_card,         \* caller's card dict (or None)
    c_recurring,    \* caller's recurring dict (or None)
    secret,         \* the shared secret of the caller
    today,          \* index of the current calendar date (the clock read by dt.datetime.now())
    enc_log,        \* outcomes of the encode calls made so far, in call order
    sg_pc,          \* sign/verify scenario: position
    sg_data,        \* sign/verify scenario: the pair {orderXML, sha512} built by pay
    sg_args,        \* sign/verify scenario: arguments handed to xml_check_sha512
    sg_tamper,      \* sign/verify scenario: which argument was changed
    sg_result,      \* sign/verify scenario: outcome of xml_check_sha512
    client,         \* the CardPay object: the fields __init__ sets
    cb_pc,          \* parse_callback: position in the call
    cb_in,          \* parse_callback: the arguments base64_string and sha512
    cb_dec,         \* parse_callback: dec_string
    cb_xml,         \* parse_callback: the element parse_response returned
    cb_out,         \* parse_callback: the exception raised or the dict returned
    cb_parser_calls,\* the contents handed to parse_response so far
    pay_pc,         \* pay: position in the call
    pay_data,       \* pay: the request parameters {orderXML, sha512}
    sent,           \* the requests handed to the transport so far
    replies,        \* the replies of the transport so far: status code and body
    pay_out,        \* pay, finish_3ds: the exception raised or the dict returned
    rounds,         \* the finish_3ds calls made so far
    op_pc,          \* client operations: position in the current call
    op_call,        \* client operations: the current call
    op_req,         \* client operations: the request the current call hands to the transport
    op_log,         \* client operations: the finished calls, their requests and outcomes
    th_pc,          \* concurrent parse_callback calls: the position of each call
    th_in,          \* concurrent parse_callback calls: each call's base64_string and sha512
    th_dec,         \* concurrent parse_callback calls: each call's dec_string
    th_xml,         \* concurrent parse_callback calls: each call's xml
    th_out          \* concurrent parse_callback calls: each call's exception or result

encVars == <<c_order, c_items, c_billing, c_shipping, c_card, c_recurring, today, enc_log>>
sgVars  == <<sg_pc, sg_data, sg_args, sg_tamper, sg_result>>
cbVars  == <<cb_pc, cb_in, cb_dec, cb_xml, cb_out, cb_parser_calls>>
payVars == <<pay_pc, pay_data, sent, replies, pay_out, rounds>>
opVars  == <<op_pc, op_call, op_req, op_log>>
thVars  == <<th_pc, th_in, th_dec, th_xml, th_out>>
vars    == <<encVars, secret, sgVars, client, cbVars, payVars, opVars, thVars>>

-----------------------------------------------------------------------------
(* Bounds *)

\* number of encode calls observed in one behaviour
MaxCalls == 2
\* number of calendar dates the clock can show
MaxDays == 2
\* number of finish_3ds calls that can follow one pay
MaxRounds == 2
\* number of leading characters of a payload that a change can hit (the
\* characters of the last group of four can always be hit)
TamperFront == 1
\* number of client operations called in one behaviour
MaxOps == 2

-----------------------------------------------------------------------------
(* Python values *)

PyNone    == [t |-> "none"]
PyStr(s)  == [t |-> "str", s |-> s]
PyInt(n)  == [t |-> "int", n |-> n]
PyBool(b) == [t |-> "bool", b |-> b]
\* an (insertion-ordered) dict of string values: a sequence of <<key, value>> pairs
PyDict(kv) == [t |-> "dict", kv |-> kv]
PyList(l)  == [t |-> "list", l |-> l]
\* a dict of Python values read by key only: a function from keys to values
PyMap(m)   == [t |-> "map", m |-> m]

\* truth value of a Python object in `if x:`
Truthy(x) ==
    CASE x.t = "none" -> FALSE
      [] x.t = "str"  -> x.s # ""
      [] x.t = "int"  -> x.n # 0
      [] x.t = "bool" -> x.b
      [] x.t = "dict" -> Len(x.kv) > 0
      [] x.t = "list" -> Len(x.l) > 0
      [] x.t = "map"  -> DOMAIN x.m # {}

\* `x is True`
IsTrue(x) == x.t = "bool" /\ x.b

Digit(d) ==
    CASE d = 0 -> "0" [] d = 1 -> "1" [] d = 2 -> "2" [] d = 3 -> "3" [] d = 4 -> "4"
      [] d = 5 -> "5" [] d = 6 -> "6" [] d = 7 -> "7" [] d = 8 -> "8" [] d = 9 -> "9"

RECURSIVE IntStr(_)
IntStr(n) == IF n < 10 THEN Digit(n) ELSE IntStr(n \div 10) \o Digit(n % 10)

\* str(x) for the values an order carries
Str(x) ==
    CASE x.t = "str"  -> x.s
      [] x.t = "int"  -> IntStr(x.n)
      [] x.t = "bool" -> IF x.b THEN "True" ELSE "False"
      [] x.t = "none" -> "None"

\* d.get(k) of a dict modelled as a function from keys to values
Get(d, k) == IF k \in DOMAIN d THEN d[k] ELSE PyNone
\* d.get(k, default)
GetDefault(d, k, default) == IF k \in DOMAIN d THEN d[k] ELSE default

\* keys of an ordered dict
KvKeys(kv) == {kv[i][1] : i \in 1..Len(kv)}
\* value of key k in an ordered dict that has it
KvGet(kv, k) == kv[CHOOSE i \in 1..Len(kv) : kv[i][1] = k][2]
\* dict.update({k: v}): an existing key keeps its position, a new key is appended
KvUpdate(kv, k, v) ==
    IF k \in KvKeys(kv)
    THEN [i \in 1..Len(kv) |-> IF kv[i][1] = k THEN <<k, v>> ELSE kv[i]]
    ELSE Append(kv, <<k, v>>)

-----------------------------------------------------------------------------
(* Elements *)

\* an lxml element: tag, attributes in insertion order, children
Element(tag, attrib, children) == [tag |-> tag, attrib |-> attrib, children |-> children]

AttrNames(e) == KvKeys(e.attrib)
\* element.get(name): the value, or None
ElemGet(e, name) == IF name \in AttrNames(e) THEN PyStr(KvGet(e.attrib, name)) ELSE PyNone
\* element.set(name, value)
ElemSet(e, name, value) == [e EXCEPT !.attrib = KvUpdate(e.attrib, name, value)]
\* element.append(child)
ElemAppend(e, child) == [e EXCEPT !.children = Append(e.children, child)]

-----------------------------------------------------------------------------
(* utils.order_to_xml *)

\* the calendar dates the clock can show, as strftime('%d.%m.%Y') prints them
DateText(d) == CASE d = 1 -> "01.11.2026" [] d = 2 -> "02.11.2026" [] OTHER -> "03.11.2026"

\* the keys order_to_xml reads with order[...], in the order it reads them
MandatoryKeys == <<"wallet_id", "number", "amount", "email">>

\* the first mandatory key the order lacks ("" if none): the KeyError order_to_xml raises
FirstMissing(order) ==
    IF \A i \in 1..Len(MandatoryKeys) : MandatoryKeys[i] \in DOMAIN order
    THEN ""
    ELSE MandatoryKeys[CHOOSE i \in 1..Len(MandatoryKeys) :
                          /\ MandatoryKeys[i] \notin DOMAIN order
                          /\ \A j \in 1..(i-1) : MandatoryKeys[j] \in DOMAIN order]

\* 'yes' for every flag value that is true in a condition
YesNo_Truthy(order, flag) == IF Truthy(Get(order, flag)) THEN "yes" ELSE "no"

\* 'yes' if order.get(flag) is True else 'no'
YesNo(order, flag) == IF IsTrue(Get(order, flag)) THEN "yes" ELSE "no"

\* E.order(...) that forgets the default of locale
OrderRoot_NoLocaleDefault(order) ==
    Element("order",
            << <<"wallet_id", Str(order["wallet_id"])>>,
               <<"number", Str(order["number"])>>,
               <<"description", Str(GetDefault(order, "description", PyStr("")))>>,
               <<"amount", Str(order["amount"])>>,
               <<"email", Str(order["email"])>>,
               <<"is_two_phase", YesNo(order, "is_two_phase")>>,
               <<"is_gateway", YesNo(order, "is_gateway")>>,
               <<"locale", Str(GetDefault(order, "locale", PyStr("")))>> >>,
            <<>>)

\* E.order(wallet_id=..., ..., locale=...)
OrderRoot(order) ==
    Element("order",
            << <<"wallet_id", Str(order["wallet_id"])>>,
               <<"number", Str(order["number"])>>,
               <<"description", Str(GetDefault(order, "description", PyStr("")))>>,
               <<"amount", Str(order["amount"])>>,
               <<"email", Str(order["email"])>>,
               <<"is_two_phase", YesNo(order, "is_two_phase")>>,
               <<"is_gateway", YesNo(order, "is_gateway")>>,
               <<"locale", Str(GetDefault(order, "locale", PyStr("en")))>> >>,
            <<>>)

\* if order.get(key): e_order.set(key, order[key])
SetIfGiven(e, order, key) ==
    IF Truthy(Get(order, key)) THEN ElemSet(e, key, Str(order[key])) ELSE e

\* an ip that is set whenever the order carries one
SetIp_Always(e, order) ==
    IF Truthy(Get(order, "ip")) THEN ElemSet(e, "ip", Str(order["ip"])) ELSE e

\* if e_order.get('is_gateway') == 'yes' and order.get('ip'): e_order.set('ip', ...)
SetIp(e, order) ==
    IF ElemGet(e, "is_gateway") = PyStr("yes") /\ Truthy(Get(order, "ip"))
    THEN ElemSet(e, "ip", Str(order["ip"]))
    ELSE e

\* the optional attributes of the order element, set in the order of the code
OrderOptional(e, order) ==
    LET e1 == SetIfGiven(e, order, "currency")
        e2 == SetIp(e1, order)
        e3 == SetIfGiven(e2, order, "customer_id")
        e4 == SetIfGiven(e3, order, "note")
        e5 == SetIfGiven(e4, order, "return_url")
        e6 == SetIfGiven(e5, order, "success_url")
        e7 == SetIfGiven(e6, order, "decline_url")
    IN  SetIfGiven(e7, order, "cancel_url")

\* generate_card_token and card_token
OrderTokens(e, generate_card_token, card_token) ==
    LET e1 == IF generate_card_token THEN ElemSet(e, "generate_card_token", "true") ELSE e
    IN  IF card_token # PyNone THEN ElemSet(e1, "card_token", Str(card_token)) ELSE e1

\* E.order_item(name=..., description=..., count=..., price=...)
ItemElement(item) ==
    Element("order_item",
            << <<"name", Str(item["name"])>>,
               <<"description", Str(GetDefault(item, "description", PyStr("")))>>,
               <<"count", Str(GetDefault(item, "count", PyInt(1)))>>,
               <<"price", Str(GetDefault(item, "price", PyInt(0)))>> >>,
            <<>>)

\* E.address(**d), E.card(**d): the dict's entries become the attributes
DictElement(tag, d) == Element(tag, d.kv, <<>>)

\* a begin that is always the current date, whatever the caller gave
RecurringBegin_AlwaysNow(recurring, now) == DateText(now)

\* begin=recurring.get('begin', dt.datetime.now().date().strftime('%d.%m.%Y'))
RecurringBegin(recurring, now) ==
    Str(GetDefault(recurring.m, "begin", PyStr(DateText(now))))

\* E.recurring(period=..., price=..., begin=...) and the optional count
RecurringElement(recurring, e_order, now) ==
    LET e == Element("recurring",
                     << <<"period", Str(recurring.m["period"])>>,
                        <<"price", Str(GetDefault(recurring.m, "price", ElemGet(e_order, "amount")))>>,
                        <<"begin", RecurringBegin(recurring, now)>> >>,
                     <<>>)
    IN  IF Truthy(Get(recurring.m, "count"))
        THEN ElemSet(e, "count", Str(recurring.m["count"]))
        ELSE e

\* the outcome of a call: the exception raised ("" if none), the element
\* returned, and the caller's billing and shipping dicts as the call leaves them
Outcome(exc, xml, billing, shipping) ==
    [exc |-> exc, xml |-> xml, billing |-> billing, shipping |-> shipping]

NoElement == Element("", <<>>, <<>>)

\* e_order.append(**shipping): append() takes one positional argument and
\* no keyword arguments, so the call raises TypeError
AppendShipping(e, shipping) == [exc |-> "TypeError", xml |-> e]

\* `for item in items: e_order.append(E.order_item(...))`
RECURSIVE AppendItems(_, _)
AppendItems(e, l) ==
    IF l = <<>> THEN e ELSE AppendItems(ElemAppend(e, ItemElement(Head(l))), Tail(l))

order_to_xml(order, items, billing, shipping, card, generate_card_token, card_token, recurring, now) ==
    LET its == IF items = PyNone THEN <<>> ELSE items.l
    IN
    IF FirstMissing(order) # "" THEN Outcome("KeyError", NoElement, billing, shipping)
    ELSE
    LET e1 == OrderTokens(OrderOptional(OrderRoot(order), order),
                          generate_card_token, card_token)
    IN
    IF \E i \in 1..Len(its) : "name" \notin DOMAIN its[i]
    THEN Outcome("KeyError", NoElement, billing, shipping)
    ELSE
    LET e2 == AppendItems(e1, its)
        billing2 == IF Truthy(billing)
                    THEN PyDict(KvUpdate(billing.kv, "type", "Billing")) ELSE billing
        e3 == IF Truthy(billing) THEN ElemAppend(e2, DictElement("address", billing2)) ELSE e2
        shipping2 == IF Truthy(shipping)
                     THEN PyDict(KvUpdate(shipping.kv, "type", "Shipping")) ELSE shipping
        r4 == IF Truthy(shipping) THEN AppendShipping(e3, shipping2)
              ELSE [exc |-> "", xml |-> e3]
    IN
    IF r4.exc # "" THEN Outcome(r4.exc, NoElement, billing2, shipping2)
    ELSE
    LET e5 == IF Truthy(card) THEN ElemAppend(r4.xml, DictElement("card", card)) ELSE r4.xml
    IN
    IF Truthy(recurring) /\ "period" \notin DOMAIN recurring.m
    THEN Outcome("KeyError", NoElement, billing2, shipping2)
    ELSE
    LET e6 == IF Truthy(recurring)
              THEN ElemAppend(e5, RecurringElement(recurring, r4.xml, now)) ELSE e5
    IN  Outcome("", e6, billing2, shipping2)

-----------------------------------------------------------------------------
(* Serialization, base64 and the digest *)

\* the UTF-8 octets of the strings of the model's vocabulary
Utf8(s) ==
  CASE s = "<?xml version='1.0' encoding='utf-8'?>\n" -> <<60, 63, 120, 109, 108, 32, 118, 101, 114, 115, 105, 111, 110, 61, 39, 49, 46, 48, 39, 32, 101, 110, 99, 111, 100, 105, 110, 103, 61, 39, 117, 116, 102, 45, 56, 39, 63, 62, 10>>
    [] s = "<" -> <<60>>
    [] s = "</" -> <<60, 47>>
    [] s = ">" -> <<62>>
    [] s = ">\n" -> <<62, 10>>
    [] s = "/>\n" -> <<47, 62, 10>>
    [] s = " " -> <<32>>
    [] s = "  " -> <<32, 32>>
    [] s = "=\"" -> <<61, 34>>
    [] s = "\"" -> <<34>>
    [] s = "" -> <<>>
    [] s = "order" -> <<111, 114, 100, 101, 114>>
    [] s = "order_item" -> <<111, 114, 100, 101, 114, 95, 105, 116, 101, 109>>
    [] s = "address" -> <<97, 100, 100, 114, 101, 115, 115>>
    [] s = "card" -> <<99, 97, 114, 100>>
    [] s = "recurring" -> <<114, 101, 99, 117, 114, 114, 105, 110, 103>>
    [] s = "redirect" -> <<114, 101, 100, 105, 114, 101, 99, 116>>
    [] s = "foo" -> <<102, 111, 111>>
    [] s = "wallet_id" -> <<119, 97, 108, 108, 101, 116, 95, 105, 100>>
    [] s = "number" -> <<110, 117, 109, 98, 101, 114>>
    [] s = "description" -> <<100, 101, 115, 99, 114, 105, 112, 116, 105, 111, 110>>
    [] s = "amount" -> <<97, 109, 111, 117, 110, 116>>
    [] s = "email" -> <<101, 109, 97, 105, 108>>
    [] s = "is_two_phase" -> <<105, 115, 95, 116, 119, 111, 95, 112, 104, 97, 115, 101>>
    [] s = "is_gateway" -> <<105, 115, 95, 103, 97, 116, 101, 119, 97, 121>>
    [] s = "locale" -> <<108, 111, 99, 97, 108, 101>>
    [] s = "currency" -> <<99, 117, 114, 114, 101, 110, 99, 121>>
    [] s = "ip" -> <<105, 112>>
    [] s = "customer_id" -> <<99, 117, 115, 116, 111, 109, 101, 114, 95, 105, 100>>
    [] s = "note" -> <<110, 111, 116, 101>>
    [] s = "return_url" -> <<114, 101, 116, 117, 114, 110, 95, 117, 114, 108>>
    [] s = "success_url" -> <<115, 117, 99, 99, 101, 115, 115, 95, 117, 114, 108>>
    [] s = "decline_url" -> <<100, 101, 99, 108, 105, 110, 101, 95, 117, 114, 108>>
    [] s = "cancel_url" -> <<99, 97, 110, 99, 101, 108, 95, 117, 114, 108>>
    [] s = "generate_card_token" -> <<103, 101, 110, 101, 114, 97, 116, 101, 95, 99, 97, 114, 100, 95, 116, 111, 107, 101, 110>>
    [] s = "card_token" -> <<99, 97, 114, 100, 95, 116, 111, 107, 101, 110>>
    [] s = "name" -> <<110, 97, 109, 101>>
    [] s = "count" -> <<99, 111, 117, 110, 116>>
    [] s = "price" -> <<112, 114, 105, 99, 101>>
    [] s = "type" -> <<116, 121, 112, 101>>
    [] s = "country" -> <<99, 111, 117, 110, 116, 114, 121>>
    [] s = "city" -> <<99, 105, 116, 121>>
    [] s = "num" -> <<110, 117, 109>>
    [] s = "holder" -> <<104, 111, 108, 100, 101, 114>>
    [] s = "period" -> <<112, 101, 114, 105, 111, 100>>
    [] s = "begin" -> <<98, 101, 103, 105, 110>>
    [] s = "id" -> <<105, 100>>
    [] s = "refund_id" -> <<114, 101, 102, 117, 110, 100, 95, 105, 100>>
    [] s = "status" -> <<115, 116, 97, 116, 117, 115>>
    [] s = "date" -> <<100, 97, 116, 101>>
    [] s = "card_bin" -> <<99, 97, 114, 100, 95, 98, 105, 110>>
    [] s = "card_num" -> <<99, 97, 114, 100, 95, 110, 117, 109>>
    [] s = "card_holder" -> <<99, 97, 114, 100, 95, 104, 111, 108, 100, 101, 114>>
    [] s = "decline_code" -> <<100, 101, 99, 108, 105, 110, 101, 95, 99, 111, 100, 101>>
    [] s = "decline_reason" -> <<100, 101, 99, 108, 105, 110, 101, 95, 114, 101, 97, 115, 111, 110>>
    [] s = "approval_code" -> <<97, 112, 112, 114, 111, 118, 97, 108, 95, 99, 111, 100, 101>>
    [] s = "is_3d" -> <<105, 115, 95, 51, 100>>
    [] s = "recurring_id" -> <<114, 101, 99, 117, 114, 114, 105, 110, 103, 95, 105, 100>>
    [] s = "refunded" -> <<114, 101, 102, 117, 110, 100, 101, 100>>
    [] s = "url" -> <<117, 114, 108>>
    [] s = "MD" -> <<77, 68>>
    [] s = "PaReq" -> <<80, 97, 82, 101, 113>>
    [] s = "yes" -> <<121, 101, 115>>
    [] s = "no" -> <<110, 111>>
    [] s = "en" -> <<101, 110>>
    [] s = "true" -> <<116, 114, 117, 101>>
    [] s = "false" -> <<102, 97, 108, 115, 101>>
    [] s = "Billing" -> <<66, 105, 108, 108, 105, 110, 103>>
    [] s = "Shipping" -> <<83, 104, 105, 112, 112, 105, 110, 103>>
    [] s = "c@example.com" -> <<99, 64, 101, 120, 97, 109, 112, 108, 101, 46, 99, 111, 109>>
    [] s = "USD" -> <<85, 83, 68>>
    [] s = "10.20.30.40" -> <<49, 48, 46, 50, 48, 46, 51, 48, 46, 52, 48>>
    [] s = "ru" -> <<114, 117>>
    [] s = "Desk" -> <<68, 101, 115, 107>>
    [] s = "Pen" -> <<80, 101, 110>>
    [] s = "USA" -> <<85, 83, 65>>
    [] s = "NY" -> <<78, 89>>
    [] s = "4111" -> <<52, 49, 49, 49>>
    [] s = "JD" -> <<74, 68>>
    [] s = "01.11.2026" -> <<48, 49, 46, 49, 49, 46, 50, 48, 50, 54>>
    [] s = "02.11.2026" -> <<48, 50, 46, 49, 49, 46, 50, 48, 50, 54>>
    [] s = "03.11.2026" -> <<48, 51, 46, 49, 49, 46, 50, 48, 50, 54>>
    [] s = "12.02.2015" -> <<49, 50, 46, 48, 50, 46, 50, 48, 49, 53>>
    [] s = "0" -> <<48>>
    [] s = "1" -> <<49>>
    [] s = "2" -> <<50>>
    [] s = "5" -> <<53>>
    [] s = "7" -> <<55>>
    [] s = "10" -> <<49, 48>>
    [] s = "12" -> <<49, 50>>
    [] s = "20" -> <<50, 48>>
    [] s = "30" -> <<51, 48>>
    [] s = "120" -> <<49, 50, 48>>
    [] s = "14.14" -> <<49, 52, 46, 49, 52>>
    [] s = "7.04" -> <<55, 46, 48, 52>>
    [] s = "-" -> <<45>>
    [] s = "x1" -> <<120, 49>>
    [] s = "007" -> <<48, 48, 55>>
    [] s = "APPROVED" -> <<65, 80, 80, 82, 79, 86, 69, 68>>
    [] s = "DECLINED" -> <<68, 69, 67, 76, 73, 78, 69, 68>>
    [] s = "05" -> <<48, 53>>
    [] s = "insufficient" -> <<105, 110, 115, 117, 102, 102, 105, 99, 105, 101, 110, 116>>
    [] s = "u" -> <<117>>
    [] s = "m" -> <<109>>
    [] s = "p" -> <<112>>
    [] s = "tok" -> <<116, 111, 107>>
    [] s = "s3cret" -> <<115, 51, 99, 114, 101, 116>>
    [] s = "other" -> <<111, 116, 104, 101, 114>>
    [] s = "pw" -> <<112, 119>>
    [] s = "response" -> <<114, 101, 115, 112, 111, 110, 115, 101>>
    [] s = "is_executed" -> <<105, 115, 95, 101, 120, 101, 99, 117, 116, 101, 100>>
    [] s = "details" -> <<100, 101, 116, 97, 105, 108, 115>>
    [] s = "orderu" -> <<111, 114, 100, 101, 114, 117>>
    [] s = "orderu_number" -> <<111, 114, 100, 101, 114, 117, 95, 110, 117, 109, 98, 101, 114>>
    [] s = "status_name" -> <<115, 116, 97, 116, 117, 115, 95, 110, 97, 109, 101>>
    [] s = "date_in" -> <<100, 97, 116, 101, 95, 105, 110>>
    [] s = "hold_number" -> <<104, 111, 108, 100, 95, 110, 117, 109, 98, 101, 114>>
    [] s = "True" -> <<84, 114, 117, 101>>
    [] s = "0.10" -> <<48, 46, 49, 48>>
    [] s = "bar" -> <<98, 97, 114>>
    [] s = "Status [capture] not allowed after [SUCCESS_CAPTURE]" -> <<83, 116, 97, 116, 117, 115, 32, 91, 99, 97, 112, 116, 117, 114, 101, 93, 32, 110, 111, 116, 32, 97, 108, 108, 111, 119, 101, 100, 32, 97, 102, 116, 101, 114, 32, 91, 83, 85, 67, 67, 69, 83, 83, 95, 67, 65, 80, 84, 85, 82, 69, 93>>
    [] s = "{\"data\": {}}" -> <<123, 34, 100, 97, 116, 97, 34, 58, 32, 123, 125, 125>>
    [] s = "{\"errors\": []}" -> <<123, 34, 101, 114, 114, 111, 114, 115, 34, 58, 32, 91, 93, 125>>
    [] s = "Bad Gateway" -> <<66, 97, 100, 32, 71, 97, 116, 101, 119, 97, 121>>

\* the attributes of an element as etree.tostring prints them
RECURSIVE AttrBytes(_)
AttrBytes(kv) ==
    IF kv = <<>> THEN <<>>
    ELSE Utf8(" ") \o Utf8(Head(kv)[1]) \o Utf8("=\"") \o Utf8(Head(kv)[2]) \o Utf8("\"")
         \o AttrBytes(Tail(kv))

\* a childless element on a line of its own, indented
LeafBytes(e, indent) ==
    indent \o Utf8("<") \o Utf8(e.tag) \o AttrBytes(e.attrib) \o Utf8("/>\n")

RECURSIVE LeavesBytes(_, _)
LeavesBytes(es, indent) ==
    IF es = <<>> THEN <<>> ELSE LeafBytes(Head(es), indent) \o LeavesBytes(Tail(es), indent)

\* etree.tostring(xml, xml_declaration=True, encoding='utf-8', pretty_print=True)
\* of an element whose children have no children
tostring(e) ==
    Utf8("<?xml version='1.0' encoding='utf-8'?>\n") \o
    (IF e.children = <<>> THEN LeafBytes(e, <<>>)
     ELSE Utf8("<") \o Utf8(e.tag) \o AttrBytes(e.attrib) \o Utf8(">\n")
          \o LeavesBytes(e.children, Utf8("  "))
          \o Utf8("</") \o Utf8(e.tag) \o Utf8(">\n"))

\* The base64 text is a sequence of characters of the base64 alphabet, each
\* written as its index 0..63; Pad is '=' and NonAlpha is a character outside
\* the alphabet.
Pad == 64
NonAlpha == 65

\* octet i of b, or 0 past its end (the zero bits base64 fills the last group with)
OctetAt(b, i) == IF i <= Len(b) THEN b[i] ELSE 0

\* base64.standard_b64encode: every three octets give four characters, the
\* last group is filled with zero bits and padded with '='
B64Encode(b) ==
    [k \in 1..(4 * ((Len(b) + 2) \div 3)) |->
        LET g == (k - 1) \div 4
            b1 == OctetAt(b, 3 * g + 1)
            b2 == OctetAt(b, 3 * g + 2)
            b3 == OctetAt(b, 3 * g + 3)
        IN  CASE (k - 1) % 4 = 0 -> b1 \div 4
              [] (k - 1) % 4 = 1 -> (b1 % 4) * 16 + b2 \div 16
              [] (k - 1) % 4 = 2 -> IF 3 * g + 2 > Len(b) THEN Pad
                                    ELSE (b2 % 16) * 4 + b3 \div 64
              [] (k - 1) % 4 = 3 -> IF 3 * g + 3 > Len(b) THEN Pad ELSE b3 % 64]

IsData(c) == c < 64
IsAlphabet(c) == c <= 64

\* the octets that the data characters d carry: three per full group of four,
\* one or two for a last group of two or three characters, whose unused low
\* bits are dropped
B64Octets(d) ==
    LET n == Len(d)
        extra == CASE n % 4 = 2 -> 1 [] n % 4 = 3 -> 2 [] OTHER -> 0
    IN  [i \in 1..(3 * (n \div 4) + extra) |->
            LET g == (i - 1) \div 3
            IN  CASE (i - 1) % 3 = 0 -> d[4 * g + 1] * 4 + d[4 * g + 2] \div 16
                  [] (i - 1) % 3 = 1 -> (d[4 * g + 2] % 16) * 16 + d[4 * g + 3] \div 4
                  [] (i - 1) % 3 = 2 -> (d[4 * g + 3] % 4) * 64 + d[4 * g + 4]]

\* base64.standard_b64decode (binascii.a2b_base64, not strict): characters
\* outside the alphabet are skipped; a '=' met after fewer than two data
\* characters of the current group is skipped; a '=' after three data
\* characters of the group, or the second '=' in a row after two, ends the
\* input; input that ends inside a group is an error.
B64Decode(s) ==
    LET t == SelectSeq(s, IsAlphabet)
        q(p) == Len(SelectSeq(SubSeq(t, 1, p - 1), IsData)) % 4
        ends == {p \in 1..Len(t) :
                    /\ t[p] = Pad
                    /\ \/ q(p) = 3
                       \/ q(p) = 2 /\ p > 1 /\ t[p - 1] = Pad}
        stop == IF ends = {} THEN Len(t) + 1
                ELSE CHOOSE p \in ends : \A p2 \in ends : p <= p2
        d == SelectSeq(SubSeq(t, 1, stop - 1), IsData)
    IN  IF ends = {} /\ Len(d) % 4 # 0 THEN [ok |-> FALSE, bytes |-> <<>>]
        ELSE [ok |-> TRUE, bytes |-> B64Octets(d)]

\* hashlib.sha512(m).hexdigest(): an ideal hash, the digest names its message
Sha512Hex(m) == [alg |-> "sha512", msg |-> m]

\* utils.xml_to_string
xml_to_string(xml, encode_base64) ==
    IF encode_base64 THEN B64Encode(tostring(xml)) ELSE tostring(xml)

\* a digest taken over the base64 text instead of the document
xml_get_sha512_OverBase64(xml, sec) == Sha512Hex(xml_to_string(xml, TRUE) \o sec)

\* utils.xml_get_sha512; sec is the octets of the secret
xml_get_sha512(xml, sec) == Sha512Hex(xml_to_string(xml, FALSE) \o sec)

\* utils.xml_check_sha512: the result, or the error of the base64 decoder
\* a check that converts the digest given from hex before comparing, and
\* fails on text that is no hexdigest
xml_check_sha512_Unhexlify(base64_string, sha512, sec) ==
    LET dec == B64Decode(base64_string)
    IN  IF ~dec.ok THEN [exc |-> "binascii.Error", value |-> FALSE]
        ELSE IF "defect" \in DOMAIN sha512 THEN [exc |-> "binascii.Error", value |-> FALSE]
        ELSE [exc |-> "", value |-> (Sha512Hex(dec.bytes \o sec) = sha512)]

xml_check_sha512(base64_string, sha512, sec) ==
    LET dec == B64Decode(base64_string)
    IN  IF ~dec.ok THEN [exc |-> "binascii.Error", value |-> FALSE]
        ELSE [exc |-> "", value |-> (Sha512Hex(dec.bytes \o sec) = sha512)]

-----------------------------------------------------------------------------
(* Exceptions *)

NoExc == [type |-> "none"]

\* exceptions.ParsingError.__init__(self, msg, content=None), inherited by
\* XMLParsingError: msg is the message (here the tag or parser error it
\* names), kw the keyword arguments of the call; a keyword other than
\* content is an unexpected keyword argument, and the call raises TypeError
XMLParsingError(msg, kw) ==
    IF DOMAIN kw \subseteq {"content"}
    THEN [type |-> "XMLParsingError", msg |-> msg,
          content |-> IF "content" \in DOMAIN kw THEN kw["content"] ELSE <<>>]
    ELSE [type |-> "TypeError", msg |-> "unexpected keyword argument",
          content |-> <<>>]

\* exceptions.SignatureError('Incorrect signature')
SignatureError == [type |-> "SignatureError", msg |-> "Incorrect signature", content |-> <<>>]

\* exceptions.HTTPError.__init__(self, msg, method, url, data, response)
HTTPError(code, method, url, data) ==
    [type |-> "HTTPError", msg |-> code, method |-> method, url |-> url, data |-> data]

\* the error of int() and Decimal() on text that is no number
ValueError(text) == [type |-> "ValueError", msg |-> text, content |-> <<>>]

-----------------------------------------------------------------------------
(* Gateway documents and decoding *)

IsDigit(o) == o >= 48 /\ o <= 57

RECURSIVE DigitsValue(_)
DigitsValue(b) ==
    IF b = <<>> THEN 0 ELSE 10 * DigitsValue(SubSeq(b, 1, Len(b) - 1)) + (b[Len(b)] - 48)

\* int(value) of a text without sign or blanks: the number its decimal
\* digits write, ValueError for any other text
ParseInt(s) ==
    LET b == Utf8(s)
    IN  IF b # <<>> /\ \A i \in 1..Len(b) : IsDigit(b[i])
        THEN [ok |-> TRUE, n |-> DigitsValue(b)]
        ELSE [ok |-> FALSE, n |-> 0]

\* an exact decimal: coefficient * 10^exp
PyDec(coef, exp) == [t |-> "dec", coef |-> coef, exp |-> exp]

IsDot(o) == o = 46
NotDot(o) == o # 46

\* a conversion through a binary fraction: the text's value rounded down to
\* a multiple of 1/256, written with four decimal places
ParseDecimal_Float(s) ==
    LET b == Utf8(s)
        digits == SelectSeq(b, NotDot)
        dots == {i \in 1..Len(b) : IsDot(b[i])}
        places == IF dots = {} THEN 0 ELSE Len(b) - (CHOOSE i \in dots : TRUE)
        scaled == (DigitsValue(digits) * 256) \div (10 ^ places)
    IN  IF /\ digits # <<>>
           /\ \A i \in 1..Len(digits) : IsDigit(digits[i])
           /\ Cardinality(dots) <= 1
        THEN [ok |-> TRUE, d |-> PyDec((scaled * 10000) \div 256, -4)]
        ELSE [ok |-> FALSE, d |-> PyDec(0, 0)]

\* Decimal(value) of a text without sign or exponent: digits with at most
\* one decimal point, kept exactly; an error for any other text
ParseDecimal(s) ==
    LET b == Utf8(s)
        digits == SelectSeq(b, NotDot)
        dots == {i \in 1..Len(b) : IsDot(b[i])}
    IN  IF /\ digits # <<>>
           /\ \A i \in 1..Len(digits) : IsDigit(digits[i])
           /\ Cardinality(dots) <= 1
        THEN [ok |-> TRUE,
              d |-> PyDec(DigitsValue(digits),
                          IF dots = {} THEN 0
                          ELSE (CHOOSE i \in dots : TRUE) - Len(b))]
        ELSE [ok |-> FALSE, d |-> PyDec(0, 0)]

\* the attributes parse_order reads, in its order
OrderFields ==
    <<"id", "refund_id", "number", "status", "description", "date", "customer_id",
      "card_bin", "card_num", "card_holder", "decline_code", "decline_reason",
      "approval_code", "is_3d", "currency", "amount", "recurring_id", "refunded", "note">>

\* the attributes CardPay.parse_callback reads, in its order
CallbackFields ==
    <<"id", "refund_id", "number", "status", "description", "date", "customer_id",
      "card_bin", "card_num", "card_holder", "decline_code", "approval_code", "is_3d",
      "currency", "amount", "recurring_id", "refunded", "note">>

\* a coercion that takes is_3d for true in either case and as "1"
Coerce_Is3dLenient(attr, value) ==
    IF attr \in {"id", "refund_id"}
    THEN IF value = "-" THEN [ok |-> TRUE, v |-> PyNone]
         ELSE [ok |-> ParseInt(value).ok, v |-> PyInt(ParseInt(value).n)]
    ELSE IF attr = "is_3d" THEN [ok |-> TRUE, v |-> PyBool(value \in {"true", "True", "1"})]
    ELSE IF attr \in {"amount", "refunded"}
         THEN [ok |-> ParseDecimal(value).ok, v |-> ParseDecimal(value).d]
    ELSE [ok |-> TRUE, v |-> PyStr(value)]

\* a coercion that turns the '-' of id and refund_id into zero
Coerce_DashIsZero(attr, value) ==
    IF attr \in {"id", "refund_id"}
    THEN IF value = "-" THEN [ok |-> TRUE, v |-> PyInt(0)]
         ELSE [ok |-> ParseInt(value).ok, v |-> PyInt(ParseInt(value).n)]
    ELSE IF attr = "is_3d" THEN [ok |-> TRUE, v |-> PyBool(value = "true")]
    ELSE IF attr \in {"amount", "refunded"}
         THEN [ok |-> ParseDecimal(value).ok, v |-> ParseDecimal(value).d]
    ELSE [ok |-> TRUE, v |-> PyStr(value)]

\* the coercion of one attribute value: '-' of id and refund_id to None and
\* any other value of theirs through int(), is_3d to a boolean, amount and
\* refunded through Decimal(), the other attributes unchanged
Coerce(attr, value) ==
    IF attr \in {"id", "refund_id"}
    THEN IF value = "-" THEN [ok |-> TRUE, v |-> PyNone]
         ELSE [ok |-> ParseInt(value).ok, v |-> PyInt(ParseInt(value).n)]
    ELSE IF attr = "is_3d" THEN [ok |-> TRUE, v |-> PyBool(value = "true")]
    ELSE IF attr \in {"amount", "refunded"}
         THEN [ok |-> ParseDecimal(value).ok, v |-> ParseDecimal(value).d]
    ELSE [ok |-> TRUE, v |-> PyStr(value)]

\* a loop that gives every field of the list a key, None for the attributes
\* the element lacks
ExtractFields_Defaults(xml, fields) ==
    LET present == {i \in 1..Len(fields) : fields[i] \in AttrNames(xml)}
        bad == {i \in present : ~Coerce(fields[i], KvGet(xml.attrib, fields[i])).ok}
    IN  IF bad # {}
        THEN [exc |-> ValueError(KvGet(xml.attrib,
                                       fields[CHOOSE i \in bad : \A j \in bad : i <= j])),
              result |-> <<>>]
        ELSE [exc |-> NoExc,
              result |-> [a \in {fields[i] : i \in 1..Len(fields)} |->
                             IF a \in AttrNames(xml)
                             THEN Coerce(a, KvGet(xml.attrib, a)).v ELSE PyNone]]

\* the loop shared by parse_order and parse_callback: the attributes of the
\* element that are in the list, coerced; the first value that cannot be
\* coerced raises
ExtractFields(xml, fields) ==
    LET present == {i \in 1..Len(fields) : fields[i] \in AttrNames(xml)}
        bad == {i \in present : ~Coerce(fields[i], KvGet(xml.attrib, fields[i])).ok}
    IN  IF bad # {}
        THEN [exc |-> ValueError(KvGet(xml.attrib,
                                       fields[CHOOSE i \in bad : \A j \in bad : i <= j])),
              result |-> <<>>]
        ELSE [exc |-> NoExc,
              result |-> [a \in {fields[i] : i \in present} |->
                             Coerce(a, KvGet(xml.attrib, a)).v]]

\* utils.parse_order
parse_order(xml) == ExtractFields(xml, OrderFields)

\* the documents the gateway sends, as replies and in callbacks
GatewayDocs ==
    { Element("order", << <<"id", "-">>, <<"number", "10">>, <<"status", "DECLINED">> >>, <<>>),
      Element("order", << <<"id", "12">>, <<"refund_id", "-">>, <<"is_3d", "true">>,
                          <<"amount", "14.14">> >>, <<>>),
      Element("order", << <<"id", "007">>, <<"status", "DECLINED">>,
                          <<"decline_reason", "insufficient">> >>, <<>>),
      Element("order", << <<"id", "x1">>, <<"status", "APPROVED">> >>, <<>>),
      Element("redirect", << <<"url", "u">> >>, <<>>),
      Element("redirect", << <<"url", "u">>, <<"MD", "m">>, <<"PaReq", "p">> >>, <<>>),
      Element("foo", << <<"id", "12">> >>, <<>>),
      Element("order", << <<"id", "12">>, <<"is_3d", "false">>, <<"amount", "0.10">>,
                          <<"refunded", "120">> >>, <<>>),
      Element("order", << <<"id", "12">>, <<"is_3d", "True">>, <<"currency", "USD">>,
                          <<"foo", "bar">> >>, <<>>),
      Element("order", << <<"number", "10">>, <<"is_3d", "1">>, <<"note", "">> >>, <<>>) }

\* content that is no XML document
Malformed == Utf8("<")

\* what the gateway can put in a reply body or a callback payload
GatewayContents == {tostring(e) : e \in GatewayDocs} \cup {Malformed}

\* the documents the gateway sends in reply to status and status-change
\* requests
StatusDocs ==
    { Element("response", << <<"is_executed", "yes">> >>, <<>>),
      Element("response", << <<"is_executed", "no">>,
                             <<"details", "Status [capture] not allowed after [SUCCESS_CAPTURE]">> >>,
              <<>>),
      Element("response", <<>>, <<>>),
      Element("response", << <<"is_executed", "yes">> >>,
              << Element("orderu", << <<"id", "12">>, <<"status_name", "APPROVED">>,
                                      <<"amount", "120">> >>, <<>>) >>) }

\* what the gateway can put in the body of such a reply
StatusContents == {tostring(e) : e \in StatusDocs} \cup {Malformed}

\* every document of the model
AllDocs == GatewayDocs \cup StatusDocs

\* the element a content is the text of, or a parse error
Parse(content) ==
    IF \E e \in AllDocs : tostring(e) = content
    THEN [ok |-> TRUE, xml |-> CHOOSE e \in AllDocs : tostring(e) = content]
    ELSE [ok |-> FALSE, xml |-> NoElement]

\* the parser's result for every content the gateway can send
Parsed == [content \in GatewayContents \cup StatusContents |-> Parse(content)]

\* etree.fromstring(content)
fromstring(content) == Parsed[content]

\* utils.parse_response: XMLParsingError(msg, content=xml) on a parse error
parse_response(content) ==
    IF fromstring(content).ok THEN [exc |-> NoExc, xml |-> fromstring(content).xml]
    ELSE [exc |-> XMLParsingError("parse", [content |-> content]), xml |-> NoElement]

\* the keyword arguments api.pay gives XMLParsingError
PayErrorKw(url, data, content) ==
    [method |-> "post", url |-> url, data |-> data, content |-> content]

\* api.pay from the reply on: parse the body, then classify by root tag
DecodeReply(content, url, data) ==
    LET r == fromstring(content)
    IN  IF ~r.ok
        THEN [exc |-> XMLParsingError("parse", PayErrorKw(url, data, content)),
              result |-> <<>>]
        ELSE IF r.xml.tag = "redirect"
             THEN [exc |-> NoExc, result |-> [url |-> ElemGet(r.xml, "url")]]
        ELSE IF r.xml.tag = "order" THEN parse_order(r.xml)
        ELSE [exc |-> XMLParsingError(r.xml.tag, PayErrorKw(url, data, content)),
              result |-> <<>>]

\* CardPay.parse_callback after the signature check: parse_response, then
\* the extraction loop
CallbackDecode(content) ==
    LET r == parse_response(content)
    IN  IF r.exc # NoExc THEN [exc |-> r.exc, result |-> <<>>]
        ELSE ExtractFields(r.xml, CallbackFields)

-----------------------------------------------------------------------------
(* Inputs *)

\* Order{wallet_id=20, number=10, amount=120, email="c@example.com"}
MinimalOrder ==
    [wallet_id |-> PyInt(20), number |-> PyInt(10), amount |-> PyInt(120),
     email |-> PyStr("c@example.com")]

Orders ==
    { MinimalOrder,
      [wallet_id |-> PyInt(7), number |-> PyInt(12), amount |-> PyStr("14.14"),
       email |-> PyStr("c@example.com")],
      MinimalOrder @@ [currency |-> PyStr("USD")],
      MinimalOrder @@ [is_gateway |-> PyBool(TRUE), ip |-> PyStr("10.20.30.40")],
      MinimalOrder @@ [ip |-> PyStr("10.20.30.40"), description |-> PyStr("Desk")],
      MinimalOrder @@ [is_two_phase |-> PyBool(TRUE), locale |-> PyStr("ru")],
      MinimalOrder @@ [is_gateway |-> PyBool(FALSE), ip |-> PyStr("10.20.30.40")],
      MinimalOrder @@ [is_two_phase |-> PyInt(1), is_gateway |-> PyStr("yes"),
                       ip |-> PyStr("10.20.30.40")] }

\* orders that lack a mandatory field
IncompleteOrders ==
    { [wallet_id |-> PyInt(20), number |-> PyInt(10), amount |-> PyInt(120)],
      [wallet_id |-> PyInt(20), amount |-> PyInt(120), email |-> PyStr("c@example.com")],
      [number |-> PyInt(10), email |-> PyStr("c@example.com")] }

ItemLists ==
    { PyNone,
      PyList(<< [name |-> PyStr("Desk")] >>),
      PyList(<< [name |-> PyStr("Desk")],
                [name |-> PyStr("Pen"), count |-> PyInt(2), price |-> PyInt(5)] >>) }

Addresses == { PyNone, PyDict(<< <<"country", "USA">>, <<"city", "NY">> >>) }

Cards == { PyNone, PyDict(<< <<"num", "4111">>, <<"holder", "JD">> >>) }

Recurrings ==
    { PyNone,
      PyMap([period |-> PyInt(30)]),
      PyMap([period |-> PyInt(30), begin |-> PyStr("12.02.2015"), count |-> PyInt(2)]) }

Secrets == { "s3cret", "other" }

-----------------------------------------------------------------------------
(* The parts of the state a scenario does not use *)

SgOff ==
    /\ sg_pc = "off" /\ sg_data = <<>> /\ sg_args = <<>> /\ sg_tamper = "none"
    /\ sg_result = <<>>

ClientOff == client = <<>>

CbOff ==
    /\ cb_pc = "off" /\ cb_in = <<>> /\ cb_dec = <<>> /\ cb_xml = NoElement
    /\ cb_out = <<>> /\ cb_parser_calls = <<>>

PayOff ==
    /\ pay_pc = "off" /\ pay_data = <<>> /\ sent = <<>> /\ replies = <<>>
    /\ pay_out = <<>> /\ rounds = 0

OpOff == op_pc = "off" /\ op_call = <<>> /\ op_req = <<>> /\ op_log = <<>>

ThOff == th_pc = <<>> /\ th_in = <<>> /\ th_dec = <<>> /\ th_xml = <<>> /\ th_out = <<>>

EncOff ==
    /\ c_order = MinimalOrder /\ c_items = PyNone /\ c_billing = PyNone
    /\ c_shipping = PyNone /\ c_card = PyNone /\ c_recurring = PyNone
    /\ today = 1 /\ enc_log = <<>>

-----------------------------------------------------------------------------
(* Encoding the caller's order: order_to_xml, then xml_to_string and        *)
(* xml_get_sha512 on the element it returns.                               *)

NoDigest == [alg |-> "none", msg |-> <<>>]

\* what one encode call yields: the date it ran on, the exception raised or
\* the element returned, the document and its digest
EncEntry(r, now, sec) ==
    [day |-> now, exc |-> r.exc, xml |-> r.xml,
     doc |-> IF r.exc = "" THEN xml_to_string(r.xml, FALSE) ELSE <<>>,
     sha512 |-> IF r.exc = "" THEN xml_get_sha512(r.xml, Utf8(sec)) ELSE NoDigest]

EncInit ==
    /\ c_order \in Orders
    /\ c_items \in ItemLists
    /\ c_billing \in Addresses
    /\ c_shipping \in Addresses
    /\ c_card \in Cards
    /\ c_recurring \in Recurrings
    /\ secret = "s3cret"
    /\ today = 1
    /\ enc_log = <<>>
    /\ SgOff /\ ClientOff /\ CbOff /\ PayOff /\ OpOff /\ ThOff

\* one call of order_to_xml on the caller's objects, followed by
\* xml_to_string and xml_get_sha512
Encode ==
    /\ Len(enc_log) < MaxCalls
    /\ LET r == order_to_xml(c_order, c_items, c_billing, c_shipping, c_card,
                             FALSE, PyNone, c_recurring, today)
       IN  /\ c_billing' = r.billing
           /\ c_shipping' = r.shipping
           /\ enc_log' = Append(enc_log, EncEntry(r, today, secret))
    /\ UNCHANGED <<c_order, c_items, c_card, c_recurring, today, secret, sgVars, client, opVars, cbVars, payVars, thVars>>

\* midnight passes
Tick ==
    /\ today < MaxDays
    /\ today' = today + 1
    /\ UNCHANGED <<c_order, c_items, c_billing, c_shipping, c_card, c_recurring,
                   enc_log, secret, sgVars, client, opVars, cbVars, payVars, thVars>>

EncNext == Encode \/ Tick

SpecEncode == EncInit /\ [][EncNext]_vars

-----------------------------------------------------------------------------
(* Properties of the encoder *)

\* what a call yielded, without the date it ran on
Yield(entry) == [exc |-> entry.exc, xml |-> entry.xml, doc |-> entry.doc,
                 sha512 |-> entry.sha512]

HasBegin(recurring) == Truthy(recurring) /\ "begin" \in DOMAIN recurring.m

\* C8 as stated: encoding is deterministic: any two calls on the same logical
\* order, made at any two moments, yield identical documents and digests,
\* also when the recurring block has no begin date.
C8_Deterministic ==
    \A i, j \in 1..Len(enc_log) : Yield(enc_log[i]) = Yield(enc_log[j])

\* C8 amended: two calls on the same logical order yield the same outcome
\* (identical documents and digests, or the same error) when the order has
\* no recurring block, or the recurring block carries a begin date, or both
\* calls run on the same calendar date.
C8_DeterministicGivenBegin ==
    \A i, j \in 1..Len(enc_log) :
        (~Truthy(c_recurring) \/ HasBegin(c_recurring) \/ enc_log[i].day = enc_log[j].day)
            => Yield(enc_log[i]) = Yield(enc_log[j])

\* two calls on different dates returned documents with a recurring block
\* that carries the caller's begin date
C8_Witness ==
    /\ Len(enc_log) >= 2
    /\ enc_log[1].day # enc_log[2].day
    /\ enc_log[1].exc = "" /\ enc_log[2].exc = ""
    /\ HasBegin(c_recurring)

\* the children order_to_xml is to append for the caller's objects
ExpectedChildren ==
    LET its == IF c_items = PyNone THEN <<>> ELSE c_items.l
    IN  [i \in 1..Len(its) |-> ItemElement(its[i])]
        \o (IF Truthy(c_billing)
            THEN <<DictElement("address", PyDict(KvUpdate(c_billing.kv, "type", "Billing")))>>
            ELSE <<>>)
        \o (IF Truthy(c_shipping)
            THEN <<DictElement("address", PyDict(KvUpdate(c_shipping.kv, "type", "Shipping")))>>
            ELSE <<>>)
        \o (IF Truthy(c_card) THEN <<DictElement("card", c_card)>> ELSE <<>>)

\* C9: every call in which items, billing, shipping, card and recurring are
\* supplied in any subset returns a document whose children are the
\* order_item elements, then the Billing address, then the Shipping address,
\* then the card, then the recurring block, each supplied one exactly once.
C9_ChildrenInFixedOrder ==
    \A i \in 1..Len(enc_log) :
        LET e == enc_log[i]
            n == Len(ExpectedChildren)
        IN  /\ e.exc = ""
            /\ Len(e.xml.children) = n + (IF Truthy(c_recurring) THEN 1 ELSE 0)
            /\ SubSeq(e.xml.children, 1, n) = ExpectedChildren
            /\ Truthy(c_recurring) => e.xml.children[n + 1].tag = "recurring"

\* the caller supplies nothing but wallet_id, number, amount and email
MinimalCall ==
    /\ DOMAIN c_order = {"wallet_id", "number", "amount", "email"}
    /\ c_items = PyNone /\ c_billing = PyNone /\ c_shipping = PyNone
    /\ c_card = PyNone /\ c_recurring = PyNone

\* C10: an order that supplies only wallet_id, number, amount and email is
\* encoded with is_two_phase="no", is_gateway="no", locale="en",
\* description="", no currency attribute, no other optional attribute and no
\* child element.
C10_MinimalDocument ==
    MinimalCall =>
        \A i \in 1..Len(enc_log) :
            LET e == enc_log[i].xml
            IN  /\ enc_log[i].exc = ""
                /\ e.tag = "order"
                /\ AttrNames(e) = {"wallet_id", "number", "description", "amount", "email",
                                   "is_two_phase", "is_gateway", "locale"}
                /\ ElemGet(e, "is_two_phase") = PyStr("no")
                /\ ElemGet(e, "is_gateway") = PyStr("no")
                /\ ElemGet(e, "locale") = PyStr("en")
                /\ ElemGet(e, "description") = PyStr("")
                /\ ElemGet(e, "wallet_id") = PyStr(Str(c_order["wallet_id"]))
                /\ ElemGet(e, "amount") = PyStr(Str(c_order["amount"]))
                /\ e.children = <<>>
                /\ enc_log[i].doc = tostring(e)

\* a minimal order has been encoded
C10_Witness == MinimalCall /\ Len(enc_log) >= 1

-----------------------------------------------------------------------------
(* Signing as api.pay does it, then verifying with xml_check_sha512, with  *)
(* one of the three arguments possibly changed in between.                 *)

\* the element order_to_xml returns for the caller's objects
CallerXml ==
    order_to_xml(c_order, c_items, c_billing, c_shipping, c_card, FALSE, PyNone,
                 c_recurring, today).xml

SgInit ==
    /\ c_order \in Orders
    /\ c_items \in ItemLists
    /\ c_billing = PyNone /\ c_shipping = PyNone /\ c_card = PyNone
    /\ c_recurring \in Recurrings
    /\ secret \in Secrets
    /\ today = 1
    /\ enc_log = <<>>
    /\ sg_pc = "start" /\ sg_data = <<>> /\ sg_args = <<>> /\ sg_tamper = "none"
    /\ sg_result = <<>>
    /\ ClientOff /\ CbOff /\ PayOff /\ OpOff /\ ThOff

\* api.pay: data = {'orderXML': xml_to_string(xml), 'sha512': xml_get_sha512(xml, secret)}
SgSign ==
    /\ sg_pc = "start"
    /\ sg_data' = [orderXML |-> xml_to_string(CallerXml, TRUE),
                   sha512 |-> xml_get_sha512(CallerXml, Utf8(secret))]
    /\ sg_args' = [base64_string |-> sg_data'.orderXML, sha512 |-> sg_data'.sha512,
                   secret |-> secret]
    /\ sg_pc' = "signed"
    /\ UNCHANGED <<encVars, secret, client, opVars, cbVars, payVars, sg_tamper, sg_result, thVars>>

\* the positions of a payload that a change can hit
TamperPositions(s) ==
    {i \in 1..Len(s) : i <= TamperFront \/ i > Len(s) - 4}

\* the characters that can replace character c: the next character of the
\* alphabet, '=', and a character outside the alphabet
Replacements(c) == {(c + 1) % 64, Pad, NonAlpha} \ {c}

\* one character of the payload is replaced
SgTamperPayload ==
    /\ sg_pc = "signed"
    /\ \E i \in TamperPositions(sg_args.base64_string) :
       \E c \in Replacements(sg_args.base64_string[i]) :
          sg_args' = [sg_args EXCEPT !.base64_string[i] = c]
    /\ sg_tamper' = "payload"
    /\ sg_pc' = "tampered"
    /\ UNCHANGED <<encVars, secret, client, opVars, cbVars, payVars, sg_data, sg_result, thVars>>

\* the verifier uses another secret
SgTamperSecret ==
    /\ sg_pc = "signed"
    /\ \E s \in Secrets \ {sg_args.secret} : sg_args' = [sg_args EXCEPT !.secret = s]
    /\ sg_tamper' = "secret"
    /\ sg_pc' = "tampered"
    /\ UNCHANGED <<encVars, secret, client, opVars, cbVars, payVars, sg_data, sg_result, thVars>>

\* the digests that can replace the digest of the pair: the digest of the
\* same document under another secret, of the document alone, and no digest
OtherDigests ==
    {xml_get_sha512(CallerXml, Utf8(s)) : s \in Secrets \ {secret}}
        \cup {Sha512Hex(xml_to_string(CallerXml, FALSE)), NoDigest}

\* the digest is replaced
SgTamperDigest ==
    /\ sg_pc = "signed"
    /\ \E h \in OtherDigests \ {sg_args.sha512} : sg_args' = [sg_args EXCEPT !.sha512 = h]
    /\ sg_tamper' = "digest"
    /\ sg_pc' = "tampered"
    /\ UNCHANGED <<encVars, secret, client, opVars, cbVars, payVars, sg_data, sg_result, thVars>>

\* xml_check_sha512(base64_string, sha512, secret)
SgCheck ==
    /\ sg_pc \in {"signed", "tampered"}
    /\ sg_result' = xml_check_sha512(sg_args.base64_string, sg_args.sha512,
                                     Utf8(sg_args.secret))
    /\ sg_pc' = "checked"
    /\ UNCHANGED <<encVars, secret, client, opVars, cbVars, payVars, sg_data, sg_args, sg_tamper, thVars>>

SgNext == SgSign \/ SgTamperPayload \/ SgTamperSecret \/ SgTamperDigest \/ SgCheck

SpecSign == SgInit /\ [][SgNext]_vars

Verified == [exc |-> "", value |-> TRUE]
Rejected == [exc |-> "", value |-> FALSE]

\* C2 as stated, an error of the decoder counted as a rejection: the pair
\* built by pay verifies, and verification does not succeed when the
\* payload, the secret or the digest is changed.
C2_VerifiesUnlessChanged ==
    sg_pc = "checked" =>
        /\ sg_tamper = "none" => sg_result = Verified
        /\ sg_tamper # "none" => sg_result # Verified

\* C2 amended: the pair built by pay verifies under the same secret;
\* verification returns false when the secret or the digest is changed, or
\* the payload is changed to one that decodes to other octets; a changed
\* payload that decodes to the same octets still verifies, and one that
\* cannot be decoded raises the decoder's error.
C2_VerifiesUnlessContentChanged ==
    sg_pc = "checked" =>
        LET dec == B64Decode(sg_args.base64_string)
        IN  /\ sg_tamper = "none" => sg_result = Verified
            /\ sg_tamper \in {"secret", "digest"} => sg_result = Rejected
            /\ sg_tamper = "payload" =>
                  /\ ~dec.ok => sg_result.exc = "binascii.Error"
                  /\ dec.ok /\ dec.bytes = tostring(CallerXml) => sg_result = Verified
                  /\ dec.ok /\ dec.bytes # tostring(CallerXml) => sg_result = Rejected

\* a payload with one character changed has been rejected
C2_Witness ==
    /\ sg_pc = "checked"
    /\ sg_tamper = "payload"
    /\ sg_args.base64_string # sg_data.orderXML
    /\ sg_result = Rejected

\* a payload with one character changed has been accepted
C2_ChangedPayloadVerifies ==
    /\ sg_pc = "checked"
    /\ sg_tamper = "payload"
    /\ sg_args.base64_string # sg_data.orderXML
    /\ sg_result = Verified

-----------------------------------------------------------------------------
(* settings.py and CardPay.__init__ *)

test_settings ==
    [url_pay |-> "https://sandbox.cardpay.com/MI/cardpayment.html",
     url_status |-> "https://sandbox.cardpay.com/MI/service/order-report",
     url_status_change |-> "https://sandbox.cardpay.com/MI/service/order-change-status",
     url_payouts |-> "https://sandbox.cardpay.com/MI/api/v2/payouts",
     url_payments |-> "https://sandbox.cardpay.com/MI/api/v2/payments",
     url_refunds |-> "https://sandbox.cardpay.com/MI/api/v2/refunds"]

live_settings ==
    [url_pay |-> "https://cardpay.com/MI/cardpayment.html",
     url_status |-> "https://cardpay.com/MI/service/order-report",
     url_status_change |-> "https://cardpay.com/MI/service/order-change-status",
     url_payouts |-> "https://cardpay.com/MI/api/v2/payouts",
     url_payments |-> "https://cardpay.com/MI/api/v2/payments",
     url_refunds |-> "https://cardpay.com/MI/api/v2/refunds"]

\* hashlib.sha256(m).hexdigest(): an ideal hash
Sha256Hex(m) == [alg |-> "sha256", msg |-> m]

\* CardPay.__init__: the secret and the password are encoded to octets, the
\* password is hashed once
CardPay(wallet_id, sec, client_login, client_password, test) ==
    [wallet_id |-> wallet_id,
     secret |-> Utf8(sec),
     client_login |-> client_login,
     client_password |-> client_password,
     client_password_sha256 |-> Sha256Hex(Utf8(client_password)),
     test |-> test,
     settings |-> IF test THEN test_settings ELSE live_settings]

\* the clients of the scenarios
Clients == {CardPay(20, s, "login", "pw", t) : s \in Secrets, t \in BOOLEAN}

-----------------------------------------------------------------------------
(* CardPay.parse_callback *)

\* the texts that differ from s in one character
Tampered(s) ==
    UNION { {[s EXCEPT ![i] = r] : r \in Replacements(s[i])} : i \in TamperPositions(s) }

\* the payloads a callback can carry: the base64 text of a gateway content,
\* as sent or with one character replaced
CallbackPayloads ==
    UNION { {B64Encode(c)} \cup Tampered(B64Encode(c)) : c \in GatewayContents }

\* the ways a digest string can be malformed: characters cut off the end, a
\* character that is no hex digit, the hex digits in upper case
Defects == {"truncated", "nonhex", "uppercase"}

\* the text of the hexdigest h with a defect: a str other than h
Malform(h, defect) == [alg |-> h.alg, msg |-> h.msg, defect |-> defect]

\* the empty str given as digest
EmptyDigest == [alg |-> "", msg |-> <<>>, defect |-> "empty"]

\* hashlib.sha512(...).hexdigest() of a gateway content under one of the secrets
GatewayDigests == {Sha512Hex(c \o Utf8(s)) : c \in GatewayContents, s \in Secrets}

MalformedDigests ==
    {Malform(h, defect) : h \in GatewayDigests, defect \in Defects} \cup {EmptyDigest}

\* the digests a callback can carry: the digest of a gateway content under
\* one of the secrets, such a digest malformed, or no digest
CallbackDigests == GatewayDigests \cup MalformedDigests \cup {NoDigest}

CbInit ==
    /\ client \in Clients
    /\ cb_pc = "idle" /\ cb_in = <<>> /\ cb_dec = <<>> /\ cb_xml = NoElement
    /\ cb_out = <<>> /\ cb_parser_calls = <<>>
    /\ secret = "s3cret"
    /\ EncOff /\ SgOff /\ PayOff /\ OpOff /\ ThOff

\* the call: parse_callback(base64_string, sha512)
CbCall ==
    /\ cb_pc = "idle"
    /\ \E b \in CallbackPayloads, h \in CallbackDigests :
          cb_in' = [base64_string |-> b, sha512 |-> h]
    /\ cb_pc' = "decode"
    /\ UNCHANGED <<encVars, secret, sgVars, client, opVars, payVars,
                   cb_dec, cb_xml, cb_out, cb_parser_calls, thVars>>

\* dec_string = base64.standard_b64decode(base64_string)
CbDecode ==
    /\ cb_pc = "decode"
    /\ LET dec == B64Decode(cb_in.base64_string)
       IN  IF dec.ok
           THEN /\ cb_dec' = dec.bytes
                /\ cb_pc' = "check"
                /\ UNCHANGED cb_out
           ELSE /\ cb_out' = [exc |-> [type |-> "binascii.Error", msg |-> "padding",
                                       content |-> <<>>],
                              result |-> <<>>]
                /\ cb_pc' = "raised"
                /\ UNCHANGED cb_dec
    /\ UNCHANGED <<encVars, secret, sgVars, client, opVars, payVars, cb_in, cb_xml, cb_parser_calls, thVars>>

\* a check that lets every digest pass
SignatureOk_Always(dec_string, sec, sha512) == TRUE

\* a comparison that ignores the case of the hex digits
SignatureOk_AnyCase(dec_string, sec, sha512) ==
    \/ Sha512Hex(dec_string \o sec) = sha512
    \/ Malform(Sha512Hex(dec_string \o sec), "uppercase") = sha512

\* hashlib.sha512(dec_string + self.secret).hexdigest() != sha512, negated
SignatureOk(dec_string, sec, sha512) == Sha512Hex(dec_string \o sec) = sha512

\* if the digests differ: raise SignatureError('Incorrect signature')
CbCheck ==
    /\ cb_pc = "check"
    /\ IF SignatureOk(cb_dec, client.secret, cb_in.sha512)
       THEN /\ cb_pc' = "parse"
            /\ UNCHANGED cb_out
       ELSE /\ cb_out' = [exc |-> SignatureError, result |-> <<>>]
            /\ cb_pc' = "raised"
    /\ UNCHANGED <<encVars, secret, sgVars, client, opVars, payVars,
                   cb_in, cb_dec, cb_xml, cb_parser_calls, thVars>>

\* xml = parse_response(dec_string)
CbParse ==
    /\ cb_pc = "parse"
    /\ cb_parser_calls' = Append(cb_parser_calls, cb_dec)
    /\ LET r == parse_response(cb_dec)
       IN  IF r.exc = NoExc
           THEN /\ cb_xml' = r.xml
                /\ cb_pc' = "extract"
                /\ UNCHANGED cb_out
           ELSE /\ cb_out' = [exc |-> r.exc, result |-> <<>>]
                /\ cb_pc' = "raised"
                /\ UNCHANGED cb_xml
    /\ UNCHANGED <<encVars, secret, sgVars, client, opVars, payVars, cb_in, cb_dec, thVars>>

\* the extraction loop and the return
CbExtract ==
    /\ cb_pc = "extract"
    /\ cb_out' = ExtractFields(cb_xml, CallbackFields)
    /\ cb_pc' = IF cb_out'.exc = NoExc THEN "returned" ELSE "raised"
    /\ UNCHANGED <<encVars, secret, sgVars, client, opVars, payVars,
                   cb_in, cb_dec, cb_xml, cb_parser_calls, thVars>>

CbNext == CbCall \/ CbDecode \/ CbCheck \/ CbParse \/ CbExtract

SpecCallback == CbInit /\ [][CbNext]_vars

\* the payload of the call decodes, and SHA-512(decoded payload || client
\* secret) is the digest supplied
CbDigestMatches ==
    /\ cb_pc # "idle"
    /\ B64Decode(cb_in.base64_string).ok
    /\ Sha512Hex(B64Decode(cb_in.base64_string).bytes \o client.secret) = cb_in.sha512

CbDigestDiffers ==
    /\ cb_pc # "idle"
    /\ B64Decode(cb_in.base64_string).ok
    /\ Sha512Hex(B64Decode(cb_in.base64_string).bytes \o client.secret) # cb_in.sha512

\* C1: when the digest of the decoded payload and the client secret differs
\* from the digest supplied, parse_callback fails with SignatureError, and
\* neither the XML parser nor the field extraction is reached for the
\* payload; parsing happens only after a successful comparison.
C1_NoParseBeforeVerify ==
    /\ (cb_parser_calls # <<>> \/ cb_pc \in {"parse", "extract", "returned"})
          => CbDigestMatches
    /\ (cb_pc = "raised" /\ CbDigestDiffers)
          => /\ cb_out = [exc |-> SignatureError, result |-> <<>>]
             /\ cb_parser_calls = <<>>
             /\ cb_xml = NoElement

\* a well-formed gateway document came with another digest and was refused
C1_Witness ==
    /\ cb_pc = "raised"
    /\ CbDigestDiffers
    /\ cb_dec \in GatewayContents \ {Malformed}
    /\ cb_out.exc = SignatureError

\* the call has ended on a payload whose signature verifies
CbEndedVerified == cb_pc \in {"returned", "raised"} /\ CbDigestMatches

\* C4: for a payload whose signature verifies, parse_callback yields what the
\* decoder of pay yields for the same content: the same classification by
\* root tag and the same fields with the same coercions.
C4_SameAsPayDecoder ==
    CbEndedVerified =>
        LET d == DecodeReply(cb_dec, client.settings.url_pay, <<>>)
        IN  /\ (cb_out.exc = NoExc) <=> (d.exc = NoExc)
            /\ cb_out.exc = NoExc => cb_out.result = d.result

\* the number an identifier text writes
IdNumber(v) == CASE v = "12" -> 12 [] v = "007" -> 7 [] OTHER -> -1

\* the values of id and refund_id in the order document decoded
IdAttrs(xml) == {a \in {"id", "refund_id"} : a \in AttrNames(xml)}

\* C7 as stated: an id or refund_id of "-" is decoded as an absent
\* identifier, not zero and not an error, and any other value is decoded as
\* an integer; for parse_callback and for parse_order.
C7_IdDashOrInteger ==
    (CbEndedVerified /\ cb_xml.tag = "order") =>
        \A out \in {cb_out, parse_order(cb_xml)} :
            /\ out.exc = NoExc
            /\ \A a \in IdAttrs(cb_xml) :
                  IF KvGet(cb_xml.attrib, a) = "-"
                  THEN out.result[a] = PyNone
                  ELSE out.result[a].t = "int"

\* C7 amended: an id or refund_id of "-" is decoded as an absent identifier,
\* not zero and not an error; any other value that is a decimal integer is
\* decoded as that integer; a value that is neither makes the decoding fail
\* with ValueError.
C7_IdDashOrIntegerOrError ==
    (CbEndedVerified /\ cb_xml.tag = "order") =>
        \A out \in {cb_out, parse_order(cb_xml)} :
            IF \E a \in IdAttrs(cb_xml) : KvGet(cb_xml.attrib, a) \notin {"-", "12", "007"}
            THEN out.exc.type = "ValueError"
            ELSE /\ out.exc = NoExc
                 /\ \A a \in IdAttrs(cb_xml) :
                       /\ a \in DOMAIN out.result
                       /\ IF KvGet(cb_xml.attrib, a) = "-"
                          THEN out.result[a] = PyNone
                          ELSE out.result[a] = PyInt(IdNumber(KvGet(cb_xml.attrib, a)))

\* an order document with id "-" and one with a numeric id were decoded
C7_Witness ==
    /\ cb_pc = "returned"
    /\ CbDigestMatches
    /\ cb_xml.tag = "order"
    /\ ElemGet(cb_xml, "refund_id") = PyStr("-")
    /\ cb_out.result["refund_id"] = PyNone
    /\ cb_out.result["id"] = PyInt(12)

-----------------------------------------------------------------------------
(* CardPay.pay, api.pay and the 3-D-Secure continuation *)

\* the status codes the transport can answer with
StatusCodes == {200, 500}

\* utils.make_http_request: not (200 <= r.status_code < 300) raises HTTPError
IsSuccess(code) == 200 <= code /\ code < 300

PayInit ==
    /\ client \in Clients
    /\ c_order \in Orders \cup IncompleteOrders
    /\ c_shipping \in Addresses
    /\ c_items = PyNone /\ c_billing = PyNone /\ c_card = PyNone /\ c_recurring = PyNone
    /\ today = 1 /\ enc_log = <<>>
    /\ secret = "s3cret"
    /\ pay_pc = "idle" /\ pay_data = <<>> /\ sent = <<>> /\ replies = <<>>
    /\ pay_out = <<>> /\ rounds = 0
    /\ SgOff /\ CbOff /\ OpOff /\ ThOff

\* CardPay.pay: order = dict(order, wallet_id=self.wallet_id)
PayOrder == [wallet_id |-> PyInt(client.wallet_id)] @@ c_order

\* api.pay: order_to_xml(order, items, billing, shipping, card, recurring)
PayXml ==
    order_to_xml(PayOrder, c_items, c_billing, c_shipping, c_card, FALSE, PyNone,
                 c_recurring, today)

\* a pay that hands the request to the transport before the order is encoded
PayEncode_RequestFirst ==
    /\ pay_pc = "idle"
    /\ \E encoded \in {PayXml} :
          /\ c_billing' = encoded.billing
          /\ c_shipping' = encoded.shipping
          /\ sent' = Append(sent, [method |-> "post", url |-> client.settings.url_pay,
                                   data |-> <<>>])
          /\ IF encoded.exc = ""
             THEN /\ pay_data' = [orderXML |-> xml_to_string(encoded.xml, TRUE),
                                  sha512 |-> xml_get_sha512(encoded.xml, client.secret)]
                  /\ pay_pc' = "request"
                  /\ UNCHANGED pay_out
             ELSE /\ pay_out' = [exc |-> [type |-> encoded.exc, msg |-> "", content |-> <<>>],
                                 result |-> <<>>]
                  /\ pay_pc' = "raised"
                  /\ UNCHANGED pay_data
          /\ UNCHANGED <<c_order, c_items, c_card, c_recurring, today, enc_log, secret, sgVars,
                         client, opVars, cbVars, replies, rounds, thVars>>

\* CardPay.pay up to the call of api.pay, and the first two lines of api.pay:
\* order_to_xml, then data = {'orderXML': ..., 'sha512': ...}
PayEncode ==
    /\ pay_pc = "idle"
    /\ \E encoded \in {PayXml} :
          /\ c_billing' = encoded.billing
          /\ c_shipping' = encoded.shipping
          /\ IF encoded.exc = ""
             THEN /\ pay_data' = [orderXML |-> xml_to_string(encoded.xml, TRUE),
                                  sha512 |-> xml_get_sha512(encoded.xml, client.secret)]
                  /\ pay_pc' = "request"
                  /\ UNCHANGED pay_out
             ELSE /\ pay_out' = [exc |-> [type |-> encoded.exc, msg |-> "", content |-> <<>>],
                                 result |-> <<>>]
                  /\ pay_pc' = "raised"
                  /\ UNCHANGED pay_data
          /\ UNCHANGED <<c_order, c_items, c_card, c_recurring, today, enc_log, secret, sgVars,
                         client, opVars, cbVars, sent, replies, rounds, thVars>>

\* r = make_http_request(settings.url_pay, method='post', **data): one
\* request to the transport, HTTPError on a status code outside 200..299
PayRequest ==
    /\ pay_pc = "request"
    /\ sent' = Append(sent, [method |-> "post", url |-> client.settings.url_pay,
                             data |-> pay_data])
    /\ \E code \in StatusCodes, body \in GatewayContents :
          /\ replies' = Append(replies, [status |-> code, content |-> body])
          /\ IF IsSuccess(code)
             THEN /\ pay_pc' = "decode"
                  /\ UNCHANGED pay_out
             ELSE /\ pay_out' = [exc |-> HTTPError(code, "post", client.settings.url_pay,
                                                   pay_data),
                                 result |-> <<>>]
                  /\ pay_pc' = "raised"
    /\ UNCHANGED <<encVars, secret, sgVars, client, opVars, cbVars, pay_data, rounds, thVars>>

\* api.pay from etree.fromstring(r) to the return or the raise
PayDecode ==
    /\ pay_pc = "decode"
    /\ pay_out' = DecodeReply(replies[Len(replies)].content, client.settings.url_pay,
                              pay_data)
    /\ pay_pc' = IF pay_out'.exc = NoExc THEN "returned" ELSE "raised"
    /\ UNCHANGED <<encVars, secret, sgVars, client, opVars, cbVars, pay_data, sent, replies, rounds, thVars>>

\* the outcome of the last call is a redirect
IsRedirect(out) == out.exc = NoExc /\ "url" \in DOMAIN out.result

\* the endpoint finish_3ds submits to
ContinuationUrl(settings) == settings.url_pay \o "#3ds"

\* the parameters finish_3ds submits: the token pair of the redirect outcome
\* the caller holds
ContinuationData(out) == [MD |-> Get(out.result, "MD"), PaReq |-> Get(out.result, "PaReq")]

\* finish_3ds(MD, PaReq), called with the tokens of the redirect outcome the
\* caller holds: one submit to the continuation endpoint, the reply decoded
\* as pay decodes its reply
Finish3ds ==
    /\ pay_pc = "returned"
    /\ IsRedirect(pay_out)
    /\ rounds < MaxRounds
    /\ rounds' = rounds + 1
    /\ sent' = Append(sent, [method |-> "post", url |-> ContinuationUrl(client.settings),
                             data |-> ContinuationData(pay_out)])
    /\ \E code \in StatusCodes, body \in GatewayContents :
          /\ replies' = Append(replies, [status |-> code, content |-> body])
          /\ pay_out' = IF IsSuccess(code)
                        THEN DecodeReply(body, ContinuationUrl(client.settings),
                                         ContinuationData(pay_out))
                        ELSE [exc |-> HTTPError(code, "post",
                                                ContinuationUrl(client.settings),
                                                ContinuationData(pay_out)),
                              result |-> <<>>]
          /\ pay_pc' = IF pay_out'.exc = NoExc THEN "returned" ELSE "raised"
    /\ UNCHANGED <<encVars, secret, sgVars, client, opVars, cbVars, pay_data, thVars>>

PayNext == PayEncode \/ PayRequest \/ PayDecode \/ Finish3ds

SpecPay == PayInit /\ [][PayNext]_vars

\* the order handed to CardPay.pay lacks number, amount or email
PayOrderIncomplete == FirstMissing(PayOrder) # ""

\* C11: when the order handed to CardPay.pay lacks number, amount or email
\* (wallet_id comes from the client), the call fails with KeyError and no
\* request is ever handed to the transport in that call.
C11_MissingFieldFailsBeforeRequest ==
    PayOrderIncomplete =>
        /\ sent = <<>> /\ replies = <<>>
        /\ pay_pc \in {"idle", "raised"}
        /\ pay_pc = "raised" => (pay_out.exc.type = "KeyError" /\ pay_out.result = <<>>)

\* pay has failed with KeyError on an order that lacks the amount and
\* carries no wallet_id of its own
C11_Witness ==
    /\ pay_pc = "raised" /\ PayOrderIncomplete
    /\ pay_out.exc.type = "KeyError"
    /\ "wallet_id" \notin DOMAIN c_order

\* pay has ended on a reply with a success status whose body is XML
PayEndedOnXml ==
    /\ pay_pc \in {"returned", "raised"}
    /\ rounds = 0
    /\ Len(replies) = 1
    /\ IsSuccess(replies[1].status)
    /\ fromstring(replies[1].content).ok

\* the root element of the reply to pay
PayReplyRoot == fromstring(replies[1].content).xml

\* C3: when the reply to pay parses as XML but its root tag is neither
\* "redirect" nor "order", pay fails with XMLParsingError carrying the tag in
\* its message and the raw content, and never returns a dictionary.
C3_UnknownRootRaisesParsingError ==
    (PayEndedOnXml /\ PayReplyRoot.tag \notin {"redirect", "order"}) =>
        /\ pay_pc = "raised"
        /\ pay_out.exc.type = "XMLParsingError"
        /\ pay_out.exc.msg = PayReplyRoot.tag
        /\ pay_out.exc.content = replies[1].content

\* the reply carries both continuation tokens
HasTokens(xml) == {"MD", "PaReq"} \subseteq AttrNames(xml)

\* C5: when the reply to pay has root tag "redirect", the outcome returned
\* carries the redirect URL and, whenever the reply contains the tokens MD
\* and PaReq, both tokens as well.
C5_RedirectCarriesTokens ==
    (PayEndedOnXml /\ PayReplyRoot.tag = "redirect") =>
        /\ pay_pc = "returned"
        /\ Get(pay_out.result, "url") = ElemGet(PayReplyRoot, "url")
        /\ HasTokens(PayReplyRoot) =>
              /\ Get(pay_out.result, "MD") = ElemGet(PayReplyRoot, "MD")
              /\ Get(pay_out.result, "PaReq") = ElemGet(PayReplyRoot, "PaReq")

\* C6: after pay has returned a redirect outcome with continuation tokens,
\* finish_3ds called with the token pair performs one submit to the
\* continuation endpoint that carries the pair the gateway issued, decodes the
\* reply as pay does, and returns an immediate result or another redirect.
C6_Finish3dsContinues ==
    \A k \in 1..rounds :
        LET prev == fromstring(replies[k].content).xml
            req == sent[k + 1]
        IN  /\ Len(sent) = rounds + 1
            /\ req.url = ContinuationUrl(client.settings)
            /\ HasTokens(prev) =>
                  req.data = [MD |-> ElemGet(prev, "MD"), PaReq |-> ElemGet(prev, "PaReq")]
            /\ (k = rounds /\ IsSuccess(replies[k + 1].status)) =>
                  pay_out = DecodeReply(replies[k + 1].content, req.url, req.data)

-----------------------------------------------------------------------------
(* The transport helpers and the status operations of api.py *)

\* a make_http_request that returns the body whatever the status code
make_http_request_AnyStatus(url, method, kwargs, reply) ==
    [exc |-> NoExc, content |-> reply.content]

\* utils.make_http_request once the transport has answered: HTTPError on a
\* status code outside 200..299, else r.content
make_http_request(url, method, kwargs, reply) ==
    IF ~IsSuccess(reply.status)
    THEN [exc |-> HTTPError(reply.status, method, url, kwargs), content |-> <<>>]
    ELSE [exc |-> NoExc, content |-> reply.content]

\* utils.xml_http_request: make_http_request, then etree.fromstring
xml_http_request(url, method, kwargs, reply) ==
    IF make_http_request(url, method, kwargs, reply).exc # NoExc
    THEN [exc |-> make_http_request(url, method, kwargs, reply).exc, xml |-> NoElement]
    ELSE IF fromstring(reply.content).ok
         THEN [exc |-> NoExc, xml |-> fromstring(reply.content).xml]
    ELSE [exc |-> XMLParsingError("parse", [method |-> method, url |-> url, data |-> kwargs,
                                            content |-> reply.content]),
          xml |-> NoElement]

\* a status_change that raises when the gateway did not execute the change
status_change_RaisesOnRefusal(settings, kwargs, reply) ==
    LET x == xml_http_request(settings.url_status_change, "post", kwargs, reply)
    IN  IF x.exc # NoExc THEN [exc |-> x.exc, result |-> <<>>]
        ELSE IF ElemGet(x.xml, "is_executed") # PyStr("yes")
             THEN [exc |-> ValueError(Str(ElemGet(x.xml, "details"))), result |-> <<>>]
        ELSE [exc |-> NoExc,
              result |-> [is_executed |-> PyBool(TRUE), details |-> PyStr("")]]

\* api.status_change
status_change(settings, kwargs, reply) ==
    LET x == xml_http_request(settings.url_status_change, "post", kwargs, reply)
    IN  IF x.exc # NoExc THEN [exc |-> x.exc, result |-> <<>>]
        ELSE IF ElemGet(x.xml, "is_executed") # PyStr("yes")
             THEN [exc |-> NoExc,
                   result |-> [is_executed |-> PyBool(FALSE),
                               details |-> ElemGet(x.xml, "details")]]
        ELSE [exc |-> NoExc,
              result |-> [is_executed |-> PyBool(TRUE), details |-> PyStr("")]]

\* the attributes api.status copies from every orderu element
OrderuKeys ==
    {"id", "orderu_number", "status_name", "date_in", "amount", "hold_number", "email"}

IsOrderu(e) == e.tag = "orderu"

\* xml.xpath('.//orderu') of a document whose children have no children
Orderus(xml) == SelectSeq(xml.children, IsOrderu)

\* api.status
status(settings, kwargs, reply) ==
    LET x == xml_http_request(settings.url_status, "post", kwargs, reply)
    IN  IF x.exc # NoExc THEN [exc |-> x.exc, result |-> <<>>]
        ELSE IF ElemGet(x.xml, "is_executed") # PyStr("yes")
             THEN [exc |-> NoExc,
                   result |-> [is_executed |-> PyBool(FALSE),
                               details |-> ElemGet(x.xml, "details"),
                               orders |-> <<>>]]
        ELSE [exc |-> NoExc,
              result |-> [is_executed |-> PyBool(TRUE), details |-> PyStr(""),
                          orders |-> [i \in 1..Len(Orderus(x.xml)) |->
                                         [k \in OrderuKeys |-> ElemGet(Orderus(x.xml)[i], k)]]]]

\* a status_to that is only a default: the caller's value stays
WithStatusTo_SetDefault(kwargs, status_to) == kwargs @@ [status_to |-> PyStr(status_to)]

\* api.void, api.refund, api.capture: kwargs.update({'status_to': ...})
WithStatusTo(kwargs, status_to) == [status_to |-> PyStr(status_to)] @@ kwargs

\* the octets of the JSON texts of the model
JsonData == Utf8("{\"data\": {}}")
JsonErrors == Utf8("{\"errors\": []}")
NotJson == Utf8("Bad Gateway")

\* json.loads(content.decode('utf-8'))
json_loads(content) ==
    CASE content = JsonData -> [ok |-> TRUE, v |-> PyMap([data |-> PyMap(<<>>)])]
      [] content = JsonErrors -> [ok |-> TRUE, v |-> PyMap([errors |-> PyList(<<>>)])]
      [] OTHER -> [ok |-> FALSE, v |-> PyNone]

\* exceptions.JSONParsingError: ParsingError.__init__(self, msg, content=None)
JSONParsingError(msg, kw) ==
    IF DOMAIN kw \subseteq {"content"}
    THEN [type |-> "JSONParsingError", msg |-> msg,
          content |-> IF "content" \in DOMAIN kw THEN kw["content"] ELSE <<>>]
    ELSE [type |-> "TypeError", msg |-> "unexpected keyword argument",
          content |-> <<>>]

\* ts.strftime('%Y-%m-%dT%H:%M:%SZ') of the clock
UtcStamp(now) == "2026-11-0" \o Digit(now) \o "T09:00:00Z"

\* api.payouts: the JSON document of the request
PayoutRequest(data, card, now) ==
    [data |-> [type |-> PyStr("PAYOUTS"), timestamp |-> PyStr(UtcStamp(now)),
               amount |-> PyStr(Str(data.amount)), card |-> card] @@ data]

\* api.payouts: url = settings.url_payouts + '?' + urlencode({'walletId': wallet_id})
PayoutUrl(settings, wallet_id) == settings.url_payouts \o "?walletId=" \o IntStr(wallet_id)

\* api.payouts once the transport has answered
payouts(url, request, reply) ==
    IF ~IsSuccess(reply.status) /\ reply.status \notin {400, 500}
    THEN [exc |-> HTTPError(reply.status, "POST", url, request), result |-> <<>>]
    ELSE IF json_loads(reply.content).ok
         THEN [exc |-> NoExc, result |-> json_loads(reply.content).v]
    ELSE [exc |-> JSONParsingError("parse", [method |-> "POST", url |-> url, data |-> request,
                                             content |-> reply.content]),
          result |-> <<>>]

-----------------------------------------------------------------------------
(* A CardPay client issuing operations *)

\* the transaction the status changes are about
TxId == PyInt(7)

PayoutData ==
    [merchantOrderId |-> PyStr("PO1"), amount |-> PyInt(5), currency |-> PyStr("USD")]

PayoutCard == PyMap([number |-> PyStr("4111")])

\* CardPay.parse_callback as one step: decode, compare the digests, parse,
\* extract
parse_callback(c, base64_string, sha512) ==
    IF ~B64Decode(base64_string).ok
    THEN [exc |-> [type |-> "binascii.Error", msg |-> "padding", content |-> <<>>],
          result |-> <<>>]
    ELSE IF ~SignatureOk(B64Decode(base64_string).bytes, c.secret, sha512)
    THEN [exc |-> SignatureError, result |-> <<>>]
    ELSE CallbackDecode(B64Decode(base64_string).bytes)

\* a notification of the gateway: an order document in base64
NotifiedPayload ==
    B64Encode(tostring(Element("order", << <<"id", "12">>, <<"refund_id", "-">>,
                                           <<"is_3d", "true">>, <<"amount", "14.14">> >>,
                               <<>>)))

\* the calls of parse_callback: the notification with the gateway's digest,
\* and with a digest made with another secret
CallbackCalls ==
    {[op |-> "parse_callback",
      args |-> [base64_string |-> NotifiedPayload,
                sha512 |-> Sha512Hex(B64Decode(NotifiedPayload).bytes \o Utf8(s))]] :
         s \in Secrets}

\* the calls made on the CardPay object: method and arguments
ClientCalls ==
    { [op |-> "void", args |-> [id |-> TxId]],
      [op |-> "capture", args |-> [id |-> TxId]],
      [op |-> "refund", args |-> [id |-> TxId, reason |-> PyStr("customer request")]],
      [op |-> "refund", args |-> [id |-> TxId, reason |-> PyStr("customer request"),
                                  amount |-> PyInt(5)]],
      [op |-> "refund", args |-> [id |-> TxId]],
      [op |-> "status", args |-> [number |-> PyStr("10")]],
      [op |-> "pay", args |-> <<>>],
      [op |-> "payouts", args |-> [data |-> PayoutData, card |-> PayoutCard]] }
        \cup CallbackCalls

\* the calls made on the functions of api.py directly, with the default settings
ApiCalls ==
    { [op |-> "api.refund",
       args |-> [id |-> TxId, client_login |-> PyStr("login"),
                 client_password |-> Sha256Hex(Utf8("pw"))]],
      [op |-> "api.refund",
       args |-> [id |-> TxId, reason |-> PyStr("customer request"),
                 status_to |-> PyStr("void"), client_login |-> PyStr("login"),
                 client_password |-> Sha256Hex(Utf8("pw"))]],
      [op |-> "api.void",
       args |-> [id |-> TxId, status_to |-> PyStr("capture"),
                 client_login |-> PyStr("login"),
                 client_password |-> Sha256Hex(Utf8("pw"))]],
      [op |-> "api.capture",
       args |-> [id |-> TxId, client_login |-> PyStr("login"),
                 client_password |-> Sha256Hex(Utf8("pw"))]] }

\* the operations that end in api.status_change
StatusChangeOps == {"void", "capture", "refund", "api.void", "api.capture", "api.refund"}

\* credentials that carry the password itself
ClientCredentials_Cleartext(c) ==
    [client_login |-> PyStr(c.client_login), client_password |-> PyStr(c.client_password)]

\* client_login=self.client_login, client_password=self.client_password_sha256
ClientCredentials(c) ==
    [client_login |-> PyStr(c.client_login), client_password |-> c.client_password_sha256]

\* a refund that always passes the amount on
RefundKwargs_AmountAlways(c, args) ==
    [id |-> args.id, reason |-> args.reason, amount |-> Get(args, "amount")]
        @@ ClientCredentials(c)

\* CardPay.refund: kwargs = {} if amount is None else {'amount': amount}, then
\* api.refund(id=id, reason=reason, client_login=..., client_password=..., **kwargs)
RefundKwargs(c, args) ==
    IF Get(args, "amount") = PyNone
    THEN [id |-> args.id, reason |-> args.reason] @@ ClientCredentials(c)
    ELSE [id |-> args.id, reason |-> args.reason, amount |-> args.amount]
             @@ ClientCredentials(c)

\* the keyword arguments that reach xml_http_request
OpKwargs(c, call) ==
    CASE call.op = "void" -> WithStatusTo([id |-> call.args.id] @@ ClientCredentials(c), "void")
      [] call.op = "capture" ->
            WithStatusTo([id |-> call.args.id] @@ ClientCredentials(c), "capture")
      [] call.op = "refund" -> WithStatusTo(RefundKwargs(c, call.args), "refund")
      [] call.op = "api.refund" -> WithStatusTo(call.args, "refund")
      [] call.op = "api.void" -> WithStatusTo(call.args, "void")
      [] call.op = "api.capture" -> WithStatusTo(call.args, "capture")
      [] call.op = "status" ->
            ClientCredentials(c) @@ [wallet_id |-> PyInt(c.wallet_id)] @@ call.args

\* settings that forget the client's choice for void
OpSettings_VoidDefault(c, call) ==
    IF call.op \in {"api.void", "api.capture", "api.refund", "void"}
    THEN live_settings ELSE c.settings

\* settings=self.settings in every method of CardPay; the functions of
\* api.py default to live_settings
OpSettings(c, call) ==
    IF call.op \in {"api.void", "api.capture", "api.refund"} THEN live_settings ELSE c.settings

\* api.pay: data = {'orderXML': order_xml, 'sha512': order_sha}
PayData(xml, sec) ==
    [orderXML |-> xml_to_string(xml, TRUE), sha512 |-> xml_get_sha512(xml, sec)]

\* a client that refuses a capture after an earlier capture of the transaction
OpError_EnforceGraph(call, encoded) ==
    CASE call.op = "refund" /\ "reason" \notin DOMAIN call.args ->
            [type |-> "TypeError", msg |-> "missing argument", content |-> <<>>]
      [] call.op = "pay" /\ encoded.exc # "" ->
            [type |-> encoded.exc, msg |-> "", content |-> <<>>]
      [] call.op = "capture" /\ \E k \in 1..Len(op_log) : op_log[k].call.op = "capture" ->
            [type |-> "ValueError", msg |-> "not allowed", content |-> <<>>]
      [] OTHER -> NoExc

\* the exception a call raises before it builds a request: refund called
\* without its positional argument reason, pay on an order order_to_xml
\* rejects (encoded is what order_to_xml yields for the caller's order)
OpError(call, encoded) ==
    CASE call.op = "refund" /\ "reason" \notin DOMAIN call.args ->
            [type |-> "TypeError", msg |-> "missing argument", content |-> <<>>]
      [] call.op = "pay" /\ encoded.exc # "" ->
            [type |-> encoded.exc, msg |-> "", content |-> <<>>]
      [] OTHER -> NoExc

\* what the call hands to requests: requests.post(url, data=kwargs) of
\* make_http_request, requests.post(url, json=request, auth=...) of payouts
OpRequestOf(c, call, encoded) ==
    CASE call.op \in StatusChangeOps ->
            [method |-> "post", url |-> OpSettings(c, call).url_status_change,
             data |-> OpKwargs(c, call)]
      [] call.op = "status" ->
            [method |-> "post", url |-> OpSettings(c, call).url_status,
             data |-> OpKwargs(c, call)]
      [] call.op = "pay" ->
            [method |-> "post", url |-> OpSettings(c, call).url_pay,
             data |-> PayData(encoded.xml, c.secret)]
      [] call.op = "payouts" ->
            [method |-> "POST", url |-> PayoutUrl(OpSettings(c, call), c.wallet_id),
             json |-> PayoutRequest(call.args.data, call.args.card, today),
             auth |-> <<c.client_login, c.client_password>>]

\* the answers of the transport: any content with status 200, and a
\* well-formed document with status 500
XmlReplies(contents, error_doc) ==
    {[status |-> 200, content |-> b] : b \in contents}
        \cup {[status |-> 500, content |-> tostring(error_doc)]}

PayoutReplies ==
    { [status |-> 200, content |-> JsonData], [status |-> 400, content |-> JsonErrors],
      [status |-> 500, content |-> NotJson], [status |-> 404, content |-> NotJson] }

\* the bodies of the replies to pay: an order, a redirect, a document with
\* another root, and content that is no document
ClientPayContents ==
    { tostring(Element("order", << <<"id", "12">>, <<"refund_id", "-">>,
                                   <<"is_3d", "true">>, <<"amount", "14.14">> >>, <<>>)),
      tostring(Element("redirect", << <<"url", "u">>, <<"MD", "m">>, <<"PaReq", "p">> >>,
                       <<>>)),
      tostring(Element("foo", << <<"id", "12">> >>, <<>>)),
      Malformed }

\* the replies a call can get: status and status-change requests are
\* answered with a response document, which lists orders only for status
OpReplies(call) ==
    CASE call.op = "pay" ->
            XmlReplies(ClientPayContents, Element("redirect", << <<"url", "u">> >>, <<>>))
      [] call.op = "payouts" -> PayoutReplies
      [] call.op = "status" ->
            XmlReplies(StatusContents,
                       Element("response", << <<"is_executed", "yes">> >>, <<>>))
      [] OTHER ->
            XmlReplies({c \in StatusContents : Parsed[c].xml.children = <<>>},
                       Element("response", << <<"is_executed", "yes">> >>, <<>>))

\* api.pay once the transport has answered
pay(url, data, reply) ==
    IF make_http_request(url, "post", data, reply).exc # NoExc
    THEN [exc |-> make_http_request(url, "post", data, reply).exc, result |-> <<>>]
    ELSE DecodeReply(reply.content, url, data)

\* the rest of the call once the transport has answered
OpOutcome(c, call, req, reply) ==
    CASE call.op \in StatusChangeOps -> status_change(OpSettings(c, call), req.data, reply)
      [] call.op = "status" -> status(OpSettings(c, call), req.data, reply)
      [] call.op = "pay" -> pay(req.url, req.data, reply)
      [] call.op = "payouts" -> payouts(req.url, req.json, reply)

\* a client, an order for its pay calls, and no call made yet
OpInit ==
    /\ client \in {c \in Clients : c.secret = Utf8("s3cret")}
    /\ c_order = MinimalOrder
    /\ c_items = PyNone /\ c_billing = PyNone /\ c_shipping = PyNone
    /\ c_card = PyNone /\ c_recurring = PyNone
    /\ today = 1 /\ enc_log = <<>>
    /\ secret = "s3cret"
    /\ op_pc = "idle" /\ op_call = <<>> /\ op_req = <<>> /\ op_log = <<>>
    /\ SgOff /\ CbOff /\ PayOff /\ ThOff

\* a client that replaces the password by its digest when the credentials
\* are first used
ClientAfter_HashInPlace(c, call) ==
    IF call.op \in {"status", "void", "refund", "capture"}
    THEN [c EXCEPT !.client_password = "sha256"]
    ELSE c

\* the client object after a call: no method of CardPay assigns to self
ClientAfter(c, call) == c

\* a finished call: the call, its outcome and the number of requests the
\* transport has received when it ends
OpEntry(call, out, nsent) == [call |-> call, out |-> out, nsent |-> nsent]

\* the caller calls an operation; the call runs up to the request it hands
\* to the transport, or fails before
OpCall ==
    /\ op_pc = "idle"
    /\ Len(op_log) < MaxOps
    /\ \E call \in ClientCalls \cup ApiCalls, encoded \in {PayXml} :
          /\ op_call' = call
          /\ c_billing' = IF call.op = "pay" THEN encoded.billing ELSE c_billing
          /\ c_shipping' = IF call.op = "pay" THEN encoded.shipping ELSE c_shipping
          /\ client' = ClientAfter(client, call)
          /\ IF OpError(call, encoded) # NoExc
             THEN /\ op_log' = Append(op_log,
                                      OpEntry(call, [exc |-> OpError(call, encoded),
                                                     result |-> <<>>], Len(sent)))
                  /\ op_pc' = "idle"
                  /\ op_req' = <<>>
             ELSE IF call.op = "parse_callback"
             THEN /\ op_log' = Append(op_log,
                                      OpEntry(call,
                                              parse_callback(client, call.args.base64_string,
                                                             call.args.sha512),
                                              Len(sent)))
                  /\ op_pc' = "idle"
                  /\ op_req' = <<>>
             ELSE /\ op_req' = OpRequestOf(client, call, encoded)
                  /\ op_pc' = "request"
                  /\ UNCHANGED op_log
    /\ UNCHANGED <<c_order, c_items, c_card, c_recurring, today, enc_log, secret, sgVars,
                   cbVars, payVars, thVars>>

\* the request goes to the transport, which answers
OpRequest ==
    /\ op_pc = "request"
    /\ sent' = Append(sent, op_req)
    /\ \E reply \in OpReplies(op_call) : replies' = Append(replies, reply)
    /\ op_pc' = "decode"
    /\ UNCHANGED <<encVars, secret, sgVars, client, cbVars, pay_pc, pay_data, pay_out, rounds,
                   op_call, op_req, op_log, thVars>>

\* a call that submits its request again when the answer cannot be used
OpDecode_Retry ==
    /\ op_pc = "decode"
    /\ IF OpOutcome(client, op_call, op_req, replies[Len(replies)]).exc # NoExc
          /\ Len(sent) < 2 * MaxOps
       THEN /\ op_pc' = "request"
            /\ UNCHANGED <<op_log, op_req>>
       ELSE /\ op_log' = Append(op_log,
                                OpEntry(op_call,
                                        OpOutcome(client, op_call, op_req,
                                                  replies[Len(replies)]),
                                        Len(sent)))
            /\ op_pc' = "idle"
            /\ op_req' = <<>>
    /\ UNCHANGED <<encVars, secret, sgVars, client, cbVars, payVars, op_call, thVars>>

\* the call checks the status code, decodes the body and returns or raises
OpDecode ==
    /\ op_pc = "decode"
    /\ op_log' = Append(op_log,
                        OpEntry(op_call,
                                OpOutcome(client, op_call, op_req, replies[Len(replies)]),
                                Len(sent)))
    /\ op_pc' = "idle"
    /\ op_req' = <<>>
    /\ UNCHANGED <<encVars, secret, sgVars, client, cbVars, payVars, op_call, thVars>>

OpNext == OpCall \/ OpRequest \/ OpDecode

SpecClient == OpInit /\ [][OpNext]_vars

\* the number of requests the transport had received when call k began
SentBefore(k) == IF k = 1 THEN 0 ELSE op_log[k - 1].nsent

\* call k handed a request to the transport
Requested(k) == op_log[k].nsent > SentBefore(k)

\* the request of call k, and the answer to it
RequestOf(k) == sent[op_log[k].nsent]
ReplyOf(k) == replies[op_log[k].nsent]

\* the arguments and the outcome of call k
CallOf(k) == op_log[k].call
OutOf(k) == op_log[k].out

\* call k is a call of CardPay.refund that names a reason
IsRefundWithReason(k) == CallOf(k).op = "refund" /\ "reason" \in DOMAIN CallOf(k).args

\* C12: no request with status_to="refund" is sent without a reason
\* parameter, whether the refund is asked through CardPay.refund or api.refund.
C12_RefundAlwaysCarriesReason ==
    \A i \in 1..Len(sent) :
        ("data" \in DOMAIN sent[i] /\ Get(sent[i].data, "status_to") = PyStr("refund")) =>
            "reason" \in DOMAIN sent[i].data

\* C13: CardPay.refund(id, reason) sends status_to="refund", the reason, and
\* no amount key when no amount is given; with an amount, the amount
\* parameter is present and equal to it.
C13_RefundParameters ==
    \A k \in 1..Len(op_log) :
        IsRefundWithReason(k) =>
            /\ Requested(k)
            /\ RequestOf(k).data.status_to = PyStr("refund")
            /\ RequestOf(k).data.reason = CallOf(k).args.reason
            /\ RequestOf(k).data.id = CallOf(k).args.id
            /\ IF Get(CallOf(k).args, "amount") = PyNone
               THEN "amount" \notin DOMAIN RequestOf(k).data
               ELSE RequestOf(k).data.amount = CallOf(k).args.amount

\* a refund without an amount and a refund with one have both been sent
C13_Witness ==
    \E k, j \in 1..Len(op_log) :
        /\ IsRefundWithReason(k) /\ IsRefundWithReason(j)
        /\ "amount" \notin DOMAIN CallOf(k).args /\ "amount" \notin DOMAIN RequestOf(k).data
        /\ "amount" \in DOMAIN CallOf(j).args /\ RequestOf(j).data.amount = PyInt(5)

\* call k is a status change whose reply has a success status and parses
WellFormedStatusChange(k) ==
    /\ CallOf(k).op \in StatusChangeOps
    /\ Requested(k)
    /\ IsSuccess(ReplyOf(k).status)
    /\ fromstring(ReplyOf(k).content).ok

\* C14: a well-formed reply to a status change whose is_executed is not
\* "yes" makes the call return is_executed=False with the details attribute
\* of the reply verbatim, and raise nothing; is_executed="yes" gives
\* is_executed=True with details ''.
C14_RefusalIsReturned ==
    \A k \in 1..Len(op_log) :
        WellFormedStatusChange(k) =>
            /\ OutOf(k).exc = NoExc
            /\ OutOf(k).result =
                  IF ElemGet(fromstring(ReplyOf(k).content).xml, "is_executed") = PyStr("yes")
                  THEN [is_executed |-> PyBool(TRUE), details |-> PyStr("")]
                  ELSE [is_executed |-> PyBool(FALSE),
                        details |-> ElemGet(fromstring(ReplyOf(k).content).xml, "details")]

\* a refusal with its details, a reply without attributes and an executed
\* change have been returned
C14_Witness ==
    /\ \E k \in 1..Len(op_log) :
          /\ WellFormedStatusChange(k)
          /\ OutOf(k).result.is_executed = PyBool(FALSE)
          /\ OutOf(k).result.details =
                PyStr("Status [capture] not allowed after [SUCCESS_CAPTURE]")
    /\ \E k \in 1..Len(op_log) :
          /\ WellFormedStatusChange(k)
          /\ OutOf(k).result \in {[is_executed |-> PyBool(FALSE), details |-> PyNone],
                                  [is_executed |-> PyBool(TRUE), details |-> PyStr("")]}

\* the operations that carry the administrative credentials
CredentialOps == {"status", "void", "refund", "capture"}

\* C15: every status, capture, refund and void request of a client carries as
\* client_password the SHA-256 hex digest of the administrative password the
\* constructor computed, and no parameter of such a request is the
\* cleartext password.
C15_PasswordOnlyAsDigest ==
    \A k \in 1..Len(op_log) :
        (CallOf(k).op \in CredentialOps /\ Requested(k)) =>
            /\ RequestOf(k).data.client_password = Sha256Hex(Utf8(client.client_password))
            /\ RequestOf(k).data.client_password = client.client_password_sha256
            /\ \A key \in DOMAIN RequestOf(k).data :
                  RequestOf(k).data[key] # PyStr(client.client_password)

\* two requests of different credential operations have been sent
C15_Witness ==
    \E k, j \in 1..Len(op_log) :
        /\ CallOf(k).op = "status" /\ Requested(k)
        /\ CallOf(j).op = "refund" /\ Requested(j)
        /\ RequestOf(k).data.client_password = RequestOf(j).data.client_password

\* the number of requests the transport had received when the last finished
\* call ended
SentAtLastReturn == IF op_log = <<>> THEN 0 ELSE op_log[Len(op_log)].nsent

C17_NoLocalTransitionCheck ==
    \A k \in 1..Len(op_log) :
        (CallOf(k).op \in {"capture", "void"} \/ IsRefundWithReason(k)) =>
            /\ Requested(k)
            /\ RequestOf(k).data.id = CallOf(k).args.id
            /\ WellFormedStatusChange(k) =>
                  /\ OutOf(k).exc = NoExc
                  /\ OutOf(k).result.is_executed =
                        PyBool(ElemGet(fromstring(ReplyOf(k).content).xml, "is_executed")
                                  = PyStr("yes"))

\* a capture the gateway executed is followed by a second capture of the
\* same transaction, which is sent and comes back refused by the gateway
C17_Witness ==
    /\ Len(op_log) = 2
    /\ CallOf(1).op = "capture" /\ CallOf(2).op = "capture"
    /\ CallOf(1).args.id = CallOf(2).args.id
    /\ OutOf(1).exc = NoExc /\ OutOf(1).result.is_executed = PyBool(TRUE)
    /\ Requested(2)
    /\ OutOf(2).exc = NoExc /\ OutOf(2).result.is_executed = PyBool(FALSE)
    /\ OutOf(2).result.details = ElemGet(fromstring(ReplyOf(2).content).xml, "details")
    /\ OutOf(2).result.details # PyNone

\* C18: a status code outside 200..299 in answer to pay or to a status
\* change makes the call fail with HTTPError carrying the method, the URL
\* and the request parameters; the body of the answer is not decoded.
C18_TransportFailureRaises ==
    \A k \in 1..Len(op_log) :
        (/\ CallOf(k).op \in StatusChangeOps \cup {"pay"}
         /\ Requested(k)
         /\ ~IsSuccess(ReplyOf(k).status)) =>
            /\ OutOf(k).exc = HTTPError(ReplyOf(k).status, "post", RequestOf(k).url,
                                        RequestOf(k).data)
            /\ OutOf(k).result = <<>>

\* pay and a status change have both failed on status 500 although the body
\* of the answer was a well-formed document
C18_Witness ==
    \E k, j \in 1..Len(op_log) :
        /\ CallOf(k).op = "pay" /\ CallOf(j).op \in StatusChangeOps
        /\ Requested(k) /\ Requested(j)
        /\ ReplyOf(k).status = 500 /\ ReplyOf(j).status = 500
        /\ fromstring(ReplyOf(k).content).ok /\ fromstring(ReplyOf(j).content).ok
        /\ OutOf(k).exc.type = "HTTPError" /\ OutOf(j).exc.type = "HTTPError"

\* the URLs a client with the given settings and wallet sends to
EndpointUrls(settings, wallet_id) ==
    {settings.url_pay, settings.url_status, settings.url_status_change,
     PayoutUrl(settings, wallet_id)}

\* C19: a client constructed with test=True sends every request of every
\* operation to the sandbox endpoints, one constructed with test=False to
\* the live endpoints, and never to an endpoint of the other environment.
C19_OneEnvironment ==
    \A k \in 1..Len(op_log) :
        (CallOf(k) \in ClientCalls /\ Requested(k)) =>
            /\ RequestOf(k).url \in
                  EndpointUrls(IF client.test THEN test_settings ELSE live_settings,
                               client.wallet_id)
            /\ RequestOf(k).url \notin
                  EndpointUrls(IF client.test THEN live_settings ELSE test_settings,
                               client.wallet_id)

\* a sandbox client has sent a void and a payout
C19_Witness ==
    /\ client.test
    /\ \E k, j \in 1..Len(op_log) :
          /\ CallOf(k).op = "void" /\ Requested(k)
          /\ CallOf(j).op = "payouts" /\ Requested(j)
          /\ RequestOf(j).url = "https://sandbox.cardpay.com/MI/api/v2/payouts?walletId=20"

-----------------------------------------------------------------------------
(* Malformed digests (C20) *)

\* the callback carries a malformed digest and a payload that decodes
CbDigestMalformed ==
    /\ cb_pc # "idle"
    /\ cb_in.sha512 \in MalformedDigests
    /\ B64Decode(cb_in.base64_string).ok

-----------------------------------------------------------------------------
(* The flags and the ip of the order element (C21, C22) *)

\* the k-th call of order_to_xml returned a document
Encoded(k) == k \in 1..Len(enc_log) /\ enc_log[k].exc = ""

\* C21: in every document produced by order_to_xml the ip attribute is
\* present only if is_gateway is "yes", and then it is the ip of the order;
\* an order whose gateway flag is not True never has ip in its encoding.
C21_IpOnlyInGatewayMode ==
    \A k \in 1..Len(enc_log) :
        Encoded(k) =>
            /\ ElemGet(enc_log[k].xml, "ip") # PyNone
                  => /\ ElemGet(enc_log[k].xml, "is_gateway") = PyStr("yes")
                     /\ ElemGet(enc_log[k].xml, "ip") = Get(c_order, "ip")
            /\ ~IsTrue(Get(c_order, "is_gateway"))
                  => "ip" \notin AttrNames(enc_log[k].xml)

\* an order with an ip and the gateway flag False was encoded, and so was
\* one with an ip and the gateway flag True
C21_Witness ==
    /\ Encoded(1)
    /\ Get(c_order, "ip") = PyStr("10.20.30.40")
    /\ Get(c_order, "is_gateway") = PyBool(FALSE)
    /\ ElemGet(enc_log[1].xml, "is_gateway") = PyStr("no")

\* the flags of the order element
OrderFlags == {"is_two_phase", "is_gateway"}

\* C22: in every document produced by order_to_xml, is_two_phase and
\* is_gateway are "yes" or "no": "yes" exactly when the flag of the order is
\* True, "no" when it is absent, False or any other value.
C22_FlagsAreYesOrNo ==
    \A k \in 1..Len(enc_log) :
        Encoded(k) =>
            \A flag \in OrderFlags :
                /\ ElemGet(enc_log[k].xml, flag) \in {PyStr("yes"), PyStr("no")}
                /\ ElemGet(enc_log[k].xml, flag) = PyStr("yes")
                      <=> Get(c_order, flag) = PyBool(TRUE)

\* an order with is_two_phase True was encoded with is_two_phase "yes" and
\* is_gateway, which it lacks, "no"
C22_Witness ==
    /\ Encoded(1)
    /\ Get(c_order, "is_two_phase") = PyBool(TRUE)
    /\ "is_gateway" \notin DOMAIN c_order
    /\ ElemGet(enc_log[1].xml, "is_two_phase") = PyStr("yes")
    /\ ElemGet(enc_log[1].xml, "is_gateway") = PyStr("no")

-----------------------------------------------------------------------------
(* The fields of a decoded order (C23, C24, C25) *)

\* a verified callback carried an order document, and the call has ended
CbEndedOnOrder == CbEndedVerified /\ cb_xml.tag = "order"

\* C23: decoding an order document that has an is_3d attribute, by
\* parse_callback and by parse_order, yields is_3d true exactly when the
\* attribute is the text "true", and false for every other text.
C23_Is3dOnlyLiteralTrue ==
    (CbEndedOnOrder /\ "is_3d" \in AttrNames(cb_xml)) =>
        \A out \in {cb_out, parse_order(cb_xml)} :
            out.exc = NoExc =>
                /\ "is_3d" \in DOMAIN out.result
                /\ out.result["is_3d"] \in {PyBool(TRUE), PyBool(FALSE)}
                /\ out.result["is_3d"] = PyBool(TRUE)
                      <=> KvGet(cb_xml.attrib, "is_3d") = "true"

\* a callback with is_3d "True" was decoded with is_3d false
C23_Witness ==
    /\ cb_pc = "returned"
    /\ CbDigestMatches
    /\ ElemGet(cb_xml, "is_3d") = PyStr("True")
    /\ cb_out.result["is_3d"] = PyBool(FALSE)

\* the fields parse_order knows
KnownFields == {OrderFields[i] : i \in 1..Len(OrderFields)}

\* the fields parse_order converts
ConvertedFields == {"id", "refund_id", "is_3d", "amount", "refunded"}

\* pay has returned the fields of an order reply
PayReturnedOrder ==
    /\ PayEndedOnXml
    /\ pay_pc = "returned"
    /\ PayReplyRoot.tag = "order"

\* C24: the result pay decodes from an order reply has a key for a field
\* exactly when the reply has that attribute and the field is in the known
\* list; absent fields are left out, and the fields other than id,
\* refund_id, is_3d, amount and refunded carry the attribute's text unchanged.
C24_KeysAreAttributesPresent ==
    PayReturnedOrder =>
        /\ DOMAIN pay_out.result = AttrNames(PayReplyRoot) \cap KnownFields
        /\ \A a \in DOMAIN pay_out.result \ ConvertedFields :
              pay_out.result[a] = PyStr(KvGet(PayReplyRoot.attrib, a))

\* pay has decoded a reply with an attribute that is no known field and a
\* known one, and a reply with an empty note
C24_Witness ==
    /\ PayReturnedOrder
    /\ "foo" \in AttrNames(PayReplyRoot)
    /\ pay_out.result = [id |-> PyInt(12), is_3d |-> PyBool(FALSE), currency |-> PyStr("USD")]

\* str(d) of a decimal without exponent part: the digits of the
\* coefficient, filled with zeros on the left, the point -exp places from
\* the right
DecText(d) ==
    LET digits == IntStr(d.coef)
        places == 0 - d.exp
        short == IF Len(digits) > places THEN 0 ELSE places + 1 - Len(digits)
        zeros == [i \in 1..short |-> "0"]
        RECURSIVE Join(_)
        Join(z) == IF z = <<>> THEN "" ELSE Head(z) \o Join(Tail(z))
        filled == Join(zeros) \o digits
    IN  IF places = 0 THEN filled
        ELSE SubSeq(filled, 1, Len(filled) - places) \o "."
                 \o SubSeq(filled, Len(filled) - places + 1, Len(filled))

\* the amount fields an order document carries
AmountAttrs(xml) == {a \in {"amount", "refunded"} : a \in AttrNames(xml)}

-----------------------------------------------------------------------------
(* The client object is read-only after construction (C26) *)

\* C26: no step of an operation of a CardPay client (pay, status, capture,
\* refund, void, payouts, parse_callback) changes the client's wallet_id,
\* secret, client_login, client_password, client_password_sha256 or
\* settings: at every point of every call the object is as constructed.
C26_ClientReadOnly == [][client' = client]_vars

\* a status change and a parse_callback have both ended on one client
C26_Witness ==
    /\ Len(op_log) = 2
    /\ CallOf(1).op = "capture" /\ OutOf(1).exc = NoExc
    /\ CallOf(2).op = "parse_callback" /\ OutOf(2).exc = NoExc
    /\ client.client_password = "pw"

-----------------------------------------------------------------------------
(* Concurrent calls of parse_callback on one client (C27) *)

\* the calls that run at the same time
Threads == {1, 2}

\* the notifications the calls are about: gateway contents in base64, one of
\* them with its last character replaced
ThPayloads ==
    { NotifiedPayload,
      B64Encode(tostring(Element("order", << <<"id", "x1">>, <<"status", "APPROVED">> >>,
                                 <<>>))),
      B64Encode(Malformed),
      [NotifiedPayload EXCEPT ![Len(NotifiedPayload)] = NonAlpha] }

\* a notification with the digest the gateway makes for it under one of the
\* secrets
ThInputs ==
    {[base64_string |-> b,
      sha512 |-> IF B64Decode(b).ok THEN Sha512Hex(B64Decode(b).bytes \o Utf8(s))
                 ELSE NoDigest] : b \in ThPayloads, s \in Secrets}

ThInit ==
    /\ client \in {c \in Clients : ~c.test}
    /\ th_pc = [t \in Threads |-> "idle"]
    /\ th_in = [t \in Threads |-> <<>>]
    /\ th_dec = [t \in Threads |-> <<>>]
    /\ th_xml = [t \in Threads |-> NoElement]
    /\ th_out = [t \in Threads |-> <<>>]
    /\ secret = "s3cret"
    /\ EncOff /\ SgOff /\ CbOff /\ PayOff /\ OpOff

\* a call begins: parse_callback(base64_string, sha512)
ThCall ==
    \E t \in Threads, in \in ThInputs :
        /\ th_pc[t] = "idle"
        /\ th_in' = [th_in EXCEPT ![t] = in]
        /\ th_pc' = [th_pc EXCEPT ![t] = "decode"]
        /\ UNCHANGED <<encVars, secret, sgVars, client, cbVars, payVars, opVars,
                       th_dec, th_xml, th_out>>

\* dec_string = base64.standard_b64decode(base64_string)
ThDecode ==
    \E t \in Threads :
        /\ th_pc[t] = "decode"
        /\ IF B64Decode(th_in[t].base64_string).ok
           THEN /\ th_dec' = [th_dec EXCEPT ![t] = B64Decode(th_in[t].base64_string).bytes]
                /\ th_pc' = [th_pc EXCEPT ![t] = "check"]
                /\ UNCHANGED th_out
           ELSE /\ th_out' = [th_out EXCEPT ![t] =
                                 [exc |-> [type |-> "binascii.Error", msg |-> "padding",
                                           content |-> <<>>],
                                  result |-> <<>>]]
                /\ th_pc' = [th_pc EXCEPT ![t] = "raised"]
                /\ UNCHANGED th_dec
        /\ UNCHANGED <<encVars, secret, sgVars, client, cbVars, payVars, opVars,
                       th_in, th_xml>>

\* a dec_string kept in one place for all calls: a call reads what the
\* other call has stored since
DecString_Shared(t) ==
    IF \E u \in Threads \ {t} : th_pc[u] \in {"check", "parse", "extract"}
    THEN th_dec[CHOOSE u \in Threads \ {t} : th_pc[u] \in {"check", "parse", "extract"}]
    ELSE th_dec[t]

\* dec_string is a local variable of the call
DecString(t) == th_dec[t]

\* if the digests differ: raise SignatureError('Incorrect signature')
ThCheck ==
    \E t \in Threads :
        /\ th_pc[t] = "check"
        /\ IF SignatureOk(DecString(t), client.secret, th_in[t].sha512)
           THEN /\ th_pc' = [th_pc EXCEPT ![t] = "parse"]
                /\ UNCHANGED th_out
           ELSE /\ th_out' = [th_out EXCEPT ![t] = [exc |-> SignatureError, result |-> <<>>]]
                /\ th_pc' = [th_pc EXCEPT ![t] = "raised"]
        /\ UNCHANGED <<encVars, secret, sgVars, client, cbVars, payVars, opVars,
                       th_in, th_dec, th_xml>>

\* xml = parse_response(dec_string)
ThParse ==
    \E t \in Threads :
        /\ th_pc[t] = "parse"
        /\ IF parse_response(DecString(t)).exc = NoExc
           THEN /\ th_xml' = [th_xml EXCEPT ![t] = parse_response(DecString(t)).xml]
                /\ th_pc' = [th_pc EXCEPT ![t] = "extract"]
                /\ UNCHANGED th_out
           ELSE /\ th_out' = [th_out EXCEPT ![t] =
                                 [exc |-> parse_response(DecString(t)).exc, result |-> <<>>]]
                /\ th_pc' = [th_pc EXCEPT ![t] = "raised"]
                /\ UNCHANGED th_xml
        /\ UNCHANGED <<encVars, secret, sgVars, client, cbVars, payVars, opVars,
                       th_in, th_dec>>

\* the extraction loop and the return
ThExtract ==
    \E t \in Threads :
        /\ th_pc[t] = "extract"
        /\ th_out' = [th_out EXCEPT ![t] = ExtractFields(th_xml[t], CallbackFields)]
        /\ th_pc' = [th_pc EXCEPT ![t] =
                        IF ExtractFields(th_xml[t], CallbackFields).exc = NoExc
                        THEN "returned" ELSE "raised"]
        /\ UNCHANGED <<encVars, secret, sgVars, client, cbVars, payVars, opVars,
                       th_in, th_dec, th_xml>>

ThNext == ThCall \/ ThDecode \/ ThCheck \/ ThParse \/ ThExtract

SpecThreads == ThInit /\ [][ThNext]_vars

\* call t has ended
ThEnded(t) == th_pc[t] \in {"returned", "raised"}

\* C27: in every interleaving of the steps of parse_callback calls on one
\* client, a call that has ended has the outcome (SignatureError, a decoding
\* failure or the decoded fields) that parse_callback run alone gives for
\* its own payload and digest and the client's secret.
C27_CallbackStateless ==
    \A t \in Threads :
        ThEnded(t) =>
            th_out[t] = parse_callback(client, th_in[t].base64_string, th_in[t].sha512)

\* one call has returned the decoded fields of its notification while the
\* other call, about another notification with a wrong digest, is between
\* its decoding and its comparison
C27_Witness ==
    /\ th_pc[1] = "returned" /\ th_out[1].result["id"] = PyInt(12)
    /\ th_pc[2] = "check"
    /\ th_dec[2] # th_dec[1]
    /\ ~SignatureOk(th_dec[2], client.secret, th_in[2].sha512)

-----------------------------------------------------------------------------
(* The caller's dictionaries (C28) *)

\* C28: order_to_xml leaves the caller's order, billing, shipping, card and
\* recurring dictionaries as the caller built them: after any number of
\* calls none of them has gained the key type or changed otherwise.
C28_CallerDictsUnchanged ==
    /\ c_order \in Orders
    /\ c_billing \in Addresses
    /\ c_shipping \in Addresses
    /\ c_card \in Cards
    /\ c_recurring \in Recurrings

-----------------------------------------------------------------------------
(* status_to of the functions of api.py (C29) *)

\* the status each function of api.py asks for
ApiStatusTo ==
    [op \in {"api.void", "api.refund", "api.capture"} |->
        CASE op = "api.void" -> "void" [] op = "api.refund" -> "refund"
          [] op = "api.capture" -> "capture"]

\* C29: the request of api.capture, api.refund and api.void carries
\* status_to "capture", "refund" and "void", whatever status_to the caller
\* passes, and every other parameter of the caller unchanged and nothing else.
C29_StatusToIsForced ==
    \A k \in 1..Len(op_log) :
        CallOf(k).op \in DOMAIN ApiStatusTo =>
            /\ Requested(k)
            /\ RequestOf(k).data.status_to = PyStr(ApiStatusTo[CallOf(k).op])
            /\ DOMAIN RequestOf(k).data = DOMAIN CallOf(k).args \cup {"status_to"}
            /\ \A key \in DOMAIN CallOf(k).args \ {"status_to"} :
                   RequestOf(k).data[key] = CallOf(k).args[key]

\* api.void called with status_to "capture" has sent status_to "void"
C29_Witness ==
    \E k \in 1..Len(op_log) :
        /\ CallOf(k).op = "api.void"
        /\ CallOf(k).args.status_to = PyStr("capture")
        /\ Requested(k)
        /\ RequestOf(k).data.status_to = PyStr("void")

-----------------------------------------------------------------------------
(* The check of parse_callback and xml_check_sha512 (C30) *)

\* the call is past its comparison of the digests
CbPastCheck == cb_pc \in {"parse", "extract", "returned", "raised"}

\* the comparison let the call go on to parse_response
CbPassedCheck == cb_pc = "parse" \/ cb_parser_calls # <<>>

\* what xml_check_sha512 gives for the arguments of the call and the secret
\* of the client
CbStandalone == xml_check_sha512(cb_in.base64_string, cb_in.sha512, client.secret)

\* C30: for every payload, digest and secret, parse_callback gets past its
\* signature check exactly when xml_check_sha512 returns true for the same
\* payload, digest and secret; it raises SignatureError exactly when
\* xml_check_sha512 returns false, and fails in the base64 decoder exactly
\* when xml_check_sha512 does.
C30_SameAcceptedPairs ==
    CbPastCheck =>
        /\ CbPassedCheck <=> CbStandalone = Verified
        /\ (cb_pc = "raised" /\ cb_out.exc = SignatureError) <=> CbStandalone = Rejected
        /\ (cb_pc = "raised" /\ cb_out.exc.type = "binascii.Error")
              <=> CbStandalone.exc = "binascii.Error"

\* a callback got past the check and was decoded, with a digest that
\* xml_check_sha512 accepts
C30_Witness ==
    /\ cb_pc = "returned"
    /\ CbPassedCheck
    /\ CbStandalone = Verified
    /\ cb_in.sha512 \in GatewayDigests

====
